---- MODULE Spec2Model ----
(***************************************************************************)
(* Event choreography of go-order-eda: broker queues, saga step handlers,  *)
(* dead-letter capture, event store and replay, the consumer loop, the     *)
(* inventory repository and the envelope validation.                       *)
(*                                                                         *)
(* Four specifications share the module:                                   *)
(*   Spec           the saga: broker queues, handlers, event store, replay *)
(*   SpecListener   EventListener.listenToQueue, one loop per queue        *)
(*   SpecInventory  productRepository reserve/release on the products      *)
(*   SpecValidate   the Validate methods of the five event envelopes       *)
(* Variables a specification does not use stay at their initial value.     *)
(***************************************************************************)
EXTENDS Integers, Sequences, FiniteSets, TLC

VARIABLES
    queues,        \* broker: queue name -> sequence of messages not yet delivered
    orders,        \* Mongo collection "orders", in insertion order
    products,      \* Mongo collection "products": product id -> quantity, reserved
    order_events,  \* Mongo collection "order_events" (the event store)
    now,           \* wall clock read by time.Now()
    replay,        \* the running ReplayFailedEvents call, if any
    used,          \* how many client calls, foreign messages, faults, replays so far
    last,          \* what the last step did (operation, input, publish attempts)
    loops,         \* listenToQueue: per queue, the loop's position and counters
    broker,        \* listener view of the broker: channel state, ctx, deliveries
    inv,           \* inventory calls made so far (SpecInventory)
    val            \* the envelope last validated and the outcome (SpecValidate)

vars == <<queues, orders, products, order_events, now, replay, used, last,
          loops, broker, inv, val>>

sagaVars == <<queues, orders, order_events, now, replay, used, last>>
listenerVars == <<loops, broker>>

(***************************************************************************)
(* Event types, queue names, status strings (events package).              *)
(***************************************************************************)
OrderRequested == "order.requested"
OrderCreated == "order.created"
OrderCancelled == "order.cancelled"
InventoryStatusUpdated == "inventory.status.updated"
NotificationSent == "notification.sent"

EventStatusPending == "pending"
EventStatusFailed == "failed"
EventStatusCompleted == "completed"
EventStatusReplaying == "replaying"

OrderStatusRequested == "Requested"

eventQueues ==
    {OrderRequested, OrderCreated, OrderCancelled, InventoryStatusUpdated, NotificationSent}

DlqName(eventQueue) == eventQueue \o ".dlq"

\* Every queue NewRabbitMQService binds to the exchange under its own name.
boundQueues == eventQueues \cup {DlqName(q) : q \in eventQueues}

(***************************************************************************)
(* Message bodies.  A body is a byte string; the model keeps what          *)
(* encoding/json makes of it:                                              *)
(*   enc = "invalid"   not JSON at all (json.Valid is false)               *)
(*   enc = "mistyped"  valid JSON whose "id"/"orderId" are numbers, so     *)
(*                     json.Unmarshal into any envelope returns an error   *)
(*   enc = "object"    a JSON object, doc its keys and values              *)
(* Timestamps are left out of the documents.                               *)
(***************************************************************************)
InvalidJSON == [enc |-> "invalid"]
MistypedJSON == [enc |-> "mistyped"]
JSONObject(d) == [enc |-> "object", doc |-> d]

jsonValid(body) == body.enc # "invalid"

Get(d, k, zero) == IF k \in DOMAIN d THEN d[k] ELSE zero

ZeroProduct == [id |-> "", name |-> "", quantity |-> 0]

\* json.Unmarshal(body, &events.OrderRequestedEvent{}) and the same for the
\* other envelopes: a key the struct has no field for is ignored, a field the
\* document has no key for keeps its zero value.
UnmarshalOrderEvent(body) ==
    IF body.enc # "object" THEN [err |-> TRUE]
    ELSE [err |-> FALSE,
          ID |-> Get(body.doc, "id", ""),
          Product |-> Get(body.doc, "product", ZeroProduct),
          Amount |-> Get(body.doc, "amount", 0),
          Status |-> Get(body.doc, "status", "")]

UnmarshalOrderCancelled(body) ==
    IF body.enc # "object" THEN [err |-> TRUE]
    ELSE [err |-> FALSE,
          OrderID |-> Get(body.doc, "orderId", ""),
          Status |-> Get(body.doc, "status", "")]

UnmarshalInventoryStatusUpdated(body) ==
    IF body.enc # "object" THEN [err |-> TRUE]
    ELSE [err |-> FALSE,
          OrderID |-> Get(body.doc, "orderId", ""),
          ProductID |-> Get(body.doc, "productId", ""),
          HasStock |-> Get(body.doc, "hasStock", FALSE)]

UnmarshalNotificationSent(body) ==
    IF body.enc # "object" THEN [err |-> TRUE]
    ELSE [err |-> FALSE,
          OrderID |-> Get(body.doc, "orderId", ""),
          Message |-> Get(body.doc, "message", "")]

\* json.Marshal of the envelopes (struct tags of the events package).
MarshalOrderEvent(id, product, amount, status) ==
    JSONObject([id |-> id, product |-> product, amount |-> amount,
                status |-> status, version |-> 1])

MarshalOrderCancelled(orderId, status) ==
    JSONObject([orderId |-> orderId, status |-> status, version |-> 1])

MarshalInventoryStatusUpdated(orderId, productId, hasStock) ==
    JSONObject([orderId |-> orderId, productId |-> productId,
                hasStock |-> hasStock, version |-> 1])

MarshalNotificationSent(orderId, message) ==
    JSONObject([orderId |-> orderId, message |-> message, version |-> 1])

(***************************************************************************)
(* Envelope validation (events package).  TRUE when Validate returns nil.  *)
(***************************************************************************)
ValidateOrderRequested_NoQuantityCheck(e) ==
    ~(e.ID = "" \/ e.Product.id = "")

ValidateOrderRequested(e) ==
    ~(e.ID = "" \/ e.Product.id = "" \/ e.Product.quantity <= 0)

ValidateOrderCreated(e) ==
    ~(e.ID = "" \/ e.Product.id = "" \/ e.Status = "")

ValidateOrderCancelled(e) ==
    ~(e.OrderID = "" \/ e.Status = "")

ValidateInventoryStatusUpdated(e) ==
    ~(e.OrderID = "" \/ e.ProductID = "")

ValidateNotificationSent(e) ==
    ~(e.OrderID = "" \/ e.Message = "")

Validate(kind, e) ==
    CASE kind = OrderRequested -> ValidateOrderRequested(e)
      [] kind = OrderCreated -> ValidateOrderCreated(e)
      [] kind = OrderCancelled -> ValidateOrderCancelled(e)
      [] kind = InventoryStatusUpdated -> ValidateInventoryStatusUpdated(e)
      [] kind = NotificationSent -> ValidateNotificationSent(e)

(***************************************************************************)
(* Inventory repository (products collection).  FindOneAndUpdate and       *)
(* UpdateOne are single atomic operations of the store.  driverErr is a    *)
(* failure of the store call itself (any error but mongo.ErrNoDocuments).  *)
(***************************************************************************)
CheckAndReserveProduct_NoStockCheck(prods, productID, quantity, driverErr) ==
    IF driverErr THEN [ok |-> FALSE, err |-> TRUE, products |-> prods]
    ELSE IF productID \in DOMAIN prods
    THEN [ok |-> TRUE, err |-> FALSE,
          products |-> [prods EXCEPT ![productID] =
                          [quantity |-> @.quantity - quantity,
                           reserved |-> @.reserved + quantity]]]
    ELSE [ok |-> FALSE, err |-> FALSE, products |-> prods]

CheckAndReserveProduct_DecrementsOnly(prods, productID, quantity, driverErr) ==
    IF driverErr THEN [ok |-> FALSE, err |-> TRUE, products |-> prods]
    ELSE IF productID \in DOMAIN prods /\ prods[productID].quantity >= quantity
    THEN [ok |-> TRUE, err |-> FALSE,
          products |-> [prods EXCEPT ![productID] =
                          [quantity |-> @.quantity - quantity,
                           reserved |-> @.reserved]]]
    ELSE [ok |-> FALSE, err |-> FALSE, products |-> prods]

CheckAndReserveProduct(prods, productID, quantity, driverErr) ==
    IF driverErr THEN [ok |-> FALSE, err |-> TRUE, products |-> prods]
    ELSE IF productID \in DOMAIN prods /\ prods[productID].quantity >= quantity
    THEN [ok |-> TRUE, err |-> FALSE,
          products |-> [prods EXCEPT ![productID] =
                          [quantity |-> @.quantity - quantity,
                           reserved |-> @.reserved + quantity]]]
    ELSE [ok |-> FALSE, err |-> FALSE, products |-> prods]

ReleaseReservedProduct_KeepsReserved(prods, productID, quantity, driverErr) ==
    IF driverErr THEN [err |-> TRUE, products |-> prods]
    ELSE IF productID \in DOMAIN prods
    THEN [err |-> FALSE,
          products |-> [prods EXCEPT ![productID] =
                          [quantity |-> @.quantity + quantity,
                           reserved |-> @.reserved]]]
    ELSE [err |-> FALSE, products |-> prods]

ReleaseReservedProduct(prods, productID, quantity, driverErr) ==
    IF driverErr THEN [err |-> TRUE, products |-> prods]
    ELSE IF productID \in DOMAIN prods
    THEN [err |-> FALSE,
          products |-> [prods EXCEPT ![productID] =
                          [quantity |-> @.quantity + quantity,
                           reserved |-> @.reserved - quantity]]]
    ELSE [err |-> FALSE, products |-> prods]

\* inventoryService.ReserveProduct / ReleaseReservedProduct delegate unchanged.
ReserveProduct(prods, productID, quantity, driverErr) ==
    CheckAndReserveProduct(prods, productID, quantity, driverErr)

(***************************************************************************)
(* Bounds of the model.                                                    *)
(***************************************************************************)
MaxCreates == 1      \* client CreateOrder calls
MaxDisturbances == 1 \* undecodable messages from outside plus steps in which a broker or store call fails
MaxReplays == 1      \* ReplayFailedEvents calls
MaxQty == 2          \* largest seeded quantity (SpecInventory)
MaxInvCalls == 2     \* inventory calls in one behaviour (SpecInventory)
MaxArrivals == 1     \* messages the broker has for one consumer (SpecListener)
MaxClosedReads == 2  \* receives from a closed delivery channel that are counted (SpecListener)

(***************************************************************************)
(* Broker (RabbitMQServiceImpl).  A message keeps who published it (by):   *)
(* the broker does not, the claims about publishers need it.               *)
(***************************************************************************)
NilBody == [enc |-> "nil"]

Route(topic) == IF topic \in boundQueues THEN {topic} ELSE {}

\* Publish returns an error for an empty topic, a nil body, a closed
\* connection, a nil channel or a failed send; sendOk = FALSE stands for the
\* last three.  It makes one send and never retries.
PublishErr(topic, body, sendOk) ==
    topic = "" \/ body = NilBody \/ ~sendOk

Publish_DropsMessage(st, topic, body, by, sendOk) ==
    [qs |-> st.qs,
     pubs |-> Append(st.pubs, [topic |-> topic, body |-> body,
                               err |-> PublishErr(topic, body, sendOk)]),
     err |-> PublishErr(topic, body, sendOk)]

\* st = [qs, pubs]: the queues and the publish attempts of the running step.
Publish(st, topic, body, by, sendOk) ==
    [qs |-> IF PublishErr(topic, body, sendOk) THEN st.qs
            ELSE [q \in DOMAIN st.qs |->
                    IF q \in Route(topic)
                    THEN Append(st.qs[q], [body |-> body, by |-> by])
                    ELSE st.qs[q]],
     pubs |-> Append(st.pubs, [topic |-> topic, body |-> body,
                               err |-> PublishErr(topic, body, sendOk)]),
     err |-> PublishErr(topic, body, sendOk)]

Remove(seq, i) == SubSeq(seq, 1, i - 1) \o SubSeq(seq, i + 1, Len(seq))

(***************************************************************************)
(* Order repository: orders collection.  The collection has no unique      *)
(* index on "id": FindOne and UpdateOne act on the first match.            *)
(***************************************************************************)
FirstMatch(docs, id) ==
    IF \E i \in 1..Len(docs) : docs[i].id = id
    THEN CHOOSE i \in 1..Len(docs) :
            docs[i].id = id /\ \A j \in 1..(i - 1) : docs[j].id # id
    ELSE 0

CreateOrder(docs, id, amount, status, product, insertOk) ==
    IF insertOk
    THEN [err |-> FALSE,
          orders |-> Append(docs, [id |-> id, amount |-> amount, status |-> status,
                                   product |-> product,
                                   notificationStatus |-> "",
                                   notificationMessage |-> ""])]
    ELSE [err |-> TRUE, orders |-> docs]

\* FindOne(...).Decode: mongo.ErrNoDocuments comes back as an error too.
GetOrderByID(docs, id, driverOk) ==
    IF driverOk /\ FirstMatch(docs, id) # 0
    THEN [err |-> FALSE, order |-> docs[FirstMatch(docs, id)]]
    ELSE [err |-> TRUE]

\* UpdateOne with $set: no match is not an error.
UpdateOrder(docs, id, update, updateOk) ==
    IF ~updateOk THEN [err |-> TRUE, orders |-> docs]
    ELSE IF FirstMatch(docs, id) = 0 THEN [err |-> FALSE, orders |-> docs]
    ELSE [err |-> FALSE,
          orders |-> [docs EXCEPT ![FirstMatch(docs, id)] =
                        [k \in DOMAIN @ |-> IF k \in DOMAIN update THEN update[k] ELSE @[k]]]]

(***************************************************************************)
(* Order repository: order_events collection (the event store).            *)
(* es = [events, now].  tick: whether the clock advanced since the last    *)
(* read.  The record id stands for primitive.NewObjectID().Hex().          *)
(***************************************************************************)
StoreEventForReplay_AcceptsAnyBytes(es, orderID, eventData, tick, insertOk) ==
    IF ~insertOk THEN [err |-> TRUE, events |-> es.events, now |-> es.now]
    ELSE [err |-> FALSE,
          events |-> Append(es.events,
                        [ID |-> Len(es.events) + 1, OrderID |-> orderID,
                         EventData |-> eventData, CreatedAt |-> es.now + tick,
                         Replayed |-> FALSE, ReplayedAt |-> 0,
                         Status |-> EventStatusFailed]),
          now |-> es.now + tick]

StoreEventForReplay(es, orderID, eventData, tick, insertOk) ==
    IF ~jsonValid(eventData) \/ ~insertOk
    THEN [err |-> TRUE, events |-> es.events, now |-> es.now]
    ELSE [err |-> FALSE,
          events |-> Append(es.events,
                        [ID |-> Len(es.events) + 1, OrderID |-> orderID,
                         EventData |-> eventData, CreatedAt |-> es.now + tick,
                         Replayed |-> FALSE, ReplayedAt |-> 0,
                         Status |-> EventStatusFailed]),
          now |-> es.now + tick]

(***************************************************************************)
(* Saga step handlers.  A handler is given the state S = [qs, orders,      *)
(* products, events, now] and the outcomes f of the broker and store calls *)
(* it may make, and yields the state it leaves, its publish attempts, the  *)
(* branch it ended in (its last log line) and the number of failed calls.  *)
(***************************************************************************)
Outcome(S, st, log, failedCalls) ==
    [qs |-> st.qs, pubs |-> st.pubs, orders |-> S.orders, products |-> S.products,
     events |-> S.events, now |-> S.now, log |-> log,
     faults |-> failedCalls + Cardinality({i \in 1..Len(st.pubs) : st.pubs[i].err})]

Begin(S) == [qs |-> S.qs, pubs |-> <<>>, err |-> FALSE]

\* for attempt := 1; attempt <= maxRetries; attempt++ { err = Publish(...); if err == nil { stop } }
RECURSIVE publishWithRetry(_, _, _, _, _, _, _)
publishWithRetry(st, topic, body, by, send, attempt, maxRetries) ==
    IF attempt > maxRetries THEN st
    ELSE IF Publish(st, topic, body, by, send[attempt]).err
         THEN publishWithRetry(Publish(st, topic, body, by, send[attempt]),
                               topic, body, by, send, attempt + 1, maxRetries)
         ELSE Publish(st, topic, body, by, send[attempt])

publishOrderCreatedEvent_RepublishesAfterSuccess(st, body, send) ==
    Publish(Publish(Publish(st, OrderCreated, body, OrderRequested, send[1]),
                    OrderCreated, body, OrderRequested, send[2]),
            OrderCreated, body, OrderRequested, send[3])

publishOrderCreatedEvent(st, body, send) ==
    publishWithRetry(st, OrderCreated, body, OrderRequested, send, 1, 3)

OrderRequestedEventHandler_Handle_StoresWhenInsertFails(S, eventData, f) ==
    LET ev == UnmarshalOrderEvent(eventData) IN
    IF ev.err THEN Outcome(S, Begin(S), "Failed to unmarshal OrderRequested event", 0)
    ELSE IF ~ValidateOrderRequested(ev)
    THEN Outcome(S, Begin(S), "Invalid OrderRequested event", 0)
    ELSE
    LET c == CreateOrder(S.orders, ev.ID, ev.Amount, "Processing", ev.Product, f.insertOk) IN
    IF c.err
    THEN LET s == StoreEventForReplay([events |-> S.events, now |-> S.now], ev.ID,
                                      eventData, f.tick, TRUE)
         IN Outcome([S EXCEPT !.events = s.events, !.now = s.now], Begin(S),
                    "Failed to create order from request", 1)
    ELSE
    LET S1 == [S EXCEPT !.orders = c.orders]
        orderCreatedEvent == MarshalOrderEvent(ev.ID, ev.Product, ev.Amount, "Processing")
        p == publishOrderCreatedEvent(Begin(S), orderCreatedEvent, f.send)
    IN
    IF ~p.err THEN Outcome(S1, p, "OrderCreated event published successfully", 0)
    ELSE
    LET s == StoreEventForReplay([events |-> S.events, now |-> S.now], ev.ID,
                                 orderCreatedEvent, f.tick, f.storeOk)
    IN Outcome([S1 EXCEPT !.events = s.events, !.now = s.now], p,
               "Failed to publish OrderCreated event", IF s.err THEN 1 ELSE 0)

OrderRequestedEventHandler_Handle(S, eventData, f) ==
    LET ev == UnmarshalOrderEvent(eventData) IN
    IF ev.err THEN Outcome(S, Begin(S), "Failed to unmarshal OrderRequested event", 0)
    ELSE IF ~ValidateOrderRequested(ev)
    THEN Outcome(S, Begin(S), "Invalid OrderRequested event", 0)
    ELSE
    LET c == CreateOrder(S.orders, ev.ID, ev.Amount, "Processing", ev.Product, f.insertOk) IN
    IF c.err THEN Outcome(S, Begin(S), "Failed to create order from request", 1)
    ELSE
    LET S1 == [S EXCEPT !.orders = c.orders]
        orderCreatedEvent == MarshalOrderEvent(ev.ID, ev.Product, ev.Amount, "Processing")
        p == publishOrderCreatedEvent(Begin(S), orderCreatedEvent, f.send)
    IN
    IF ~p.err THEN Outcome(S1, p, "OrderCreated event published successfully", 0)
    ELSE
    LET s == StoreEventForReplay([events |-> S.events, now |-> S.now], ev.ID,
                                 orderCreatedEvent, f.tick, f.storeOk)
    IN Outcome([S1 EXCEPT !.events = s.events, !.now = s.now], p,
               "Failed to publish OrderCreated event", IF s.err THEN 1 ELSE 0)

publishInventoryStatusUpdated(st, orderID, productID, hasStock, sendOk) ==
    Publish(st, InventoryStatusUpdated,
            MarshalInventoryStatusUpdated(orderID, productID, hasStock),
            OrderCreated, sendOk)

OrderCreatedEventHandler_Handle_ConfirmsWithoutStock(S, msgBody, f) ==
    LET event == UnmarshalOrderEvent(msgBody) IN
    IF event.err
    THEN Outcome(S, Publish(Begin(S), DlqName(OrderCreated), msgBody, OrderCreated, f.sendDLQ),
                 "Failed to unmarshal OrderCreatedEvent", 0)
    ELSE
    LET u == UpdateOrder(S.orders, event.ID, [status |-> "Confirmed"], f.updateOk) IN
    Outcome([S EXCEPT !.orders = u.orders],
            publishInventoryStatusUpdated(Begin(S), event.ID, event.Product.id, TRUE, f.sendNext),
            "Order confirmed and inventory reserved", IF u.err THEN 1 ELSE 0)

OrderCreatedEventHandler_Handle_PublishesBeforeUpdate(S, msgBody, f) ==
    LET event == UnmarshalOrderEvent(msgBody) IN
    IF event.err
    THEN Outcome(S, Publish(Begin(S), DlqName(OrderCreated), msgBody, OrderCreated, f.sendDLQ),
                 "Failed to unmarshal OrderCreatedEvent", 0)
    ELSE
    LET r == ReserveProduct(S.products, event.Product.id, event.Product.quantity, f.driverErr) IN
    IF r.err
    THEN Outcome(S, Publish(Begin(S), DlqName(OrderCreated), msgBody, OrderCreated, f.sendDLQ),
                 "Error reserving product through inventory service", 1)
    ELSE IF r.ok THEN
        LET S1 == [S EXCEPT !.products = r.products]
            p == publishInventoryStatusUpdated(Begin(S), event.ID, event.Product.id,
                                               TRUE, f.sendNext)
            u == UpdateOrder(S.orders, event.ID, [status |-> "Confirmed"], f.updateOk)
        IN
        IF u.err
        THEN Outcome(S1, Publish(p, DlqName(OrderCreated), msgBody, OrderCreated, f.sendDLQ),
                     "Failed to update order status", 1)
        ELSE Outcome([S1 EXCEPT !.orders = u.orders], p,
                     "Order confirmed and inventory reserved", 0)
    ELSE
        Outcome(S, Publish(publishInventoryStatusUpdated(Begin(S), event.ID, event.Product.id,
                                                         FALSE, f.sendNext),
                           DlqName(OrderCreated), msgBody, OrderCreated, f.sendDLQ),
                "Product not found or not enough quantity", 0)

OrderCreatedEventHandler_Handle(S, msgBody, f) ==
    LET event == UnmarshalOrderEvent(msgBody) IN
    IF event.err
    THEN Outcome(S, Publish(Begin(S), DlqName(OrderCreated), msgBody, OrderCreated, f.sendDLQ),
                 "Failed to unmarshal OrderCreatedEvent", 0)
    ELSE
    LET r == ReserveProduct(S.products, event.Product.id, event.Product.quantity, f.driverErr) IN
    IF r.err
    THEN Outcome(S, Publish(Begin(S), DlqName(OrderCreated), msgBody, OrderCreated, f.sendDLQ),
                 "Error reserving product through inventory service", 1)
    ELSE IF r.ok THEN
        LET S1 == [S EXCEPT !.products = r.products]
            u == UpdateOrder(S.orders, event.ID, [status |-> "Confirmed"], f.updateOk)
        IN
        IF u.err
        THEN Outcome(S1, Publish(Begin(S), DlqName(OrderCreated), msgBody, OrderCreated, f.sendDLQ),
                     "Failed to update order status", 1)
        ELSE Outcome([S1 EXCEPT !.orders = u.orders],
                     publishInventoryStatusUpdated(Begin(S), event.ID, event.Product.id,
                                                   TRUE, f.sendNext),
                     "Order confirmed and inventory reserved", 0)
    ELSE
        Outcome(S, Publish(publishInventoryStatusUpdated(Begin(S), event.ID, event.Product.id,
                                                         FALSE, f.sendNext),
                           DlqName(OrderCreated), msgBody, OrderCreated, f.sendDLQ),
                "Product not found or not enough quantity", 0)

getNotificationMessage(hasStock, productID) ==
    IF hasStock THEN "Order confirmed for product: " \o productID
    ELSE "Order cancelled due to insufficient stock for product: " \o productID

InventoryStatusUpdatedEventHandler_Handle_NotifiesFirst(S, msgBody, f) ==
    LET event == UnmarshalInventoryStatusUpdated(msgBody) IN
    IF event.err
    THEN Outcome(S, Publish(Begin(S), DlqName(InventoryStatusUpdated), msgBody,
                            InventoryStatusUpdated, f.sendDLQ),
                 "Failed to unmarshal InventoryStatusUpdatedEvent", 0)
    ELSE
    LET n == Publish(Begin(S), NotificationSent,
                     MarshalNotificationSent(event.OrderID,
                         getNotificationMessage(event.HasStock, event.ProductID)),
                     InventoryStatusUpdated, f.sendNotification)
    IN Outcome(S, IF event.HasStock THEN n
                  ELSE Publish(n, OrderCancelled,
                               MarshalOrderCancelled(event.OrderID, "Cancelled"),
                               InventoryStatusUpdated, f.sendCancelled),
               "Notification sent and event published", 0)

InventoryStatusUpdatedEventHandler_Handle(S, msgBody, f) ==
    LET event == UnmarshalInventoryStatusUpdated(msgBody) IN
    IF event.err
    THEN Outcome(S, Publish(Begin(S), DlqName(InventoryStatusUpdated), msgBody,
                            InventoryStatusUpdated, f.sendDLQ),
                 "Failed to unmarshal InventoryStatusUpdatedEvent", 0)
    ELSE
    LET c == IF event.HasStock THEN Begin(S)
             ELSE Publish(Begin(S), OrderCancelled,
                          MarshalOrderCancelled(event.OrderID, "Cancelled"),
                          InventoryStatusUpdated, f.sendCancelled)
    IN
    IF c.err
    THEN Outcome(S, Publish(c, DlqName(InventoryStatusUpdated), msgBody,
                            InventoryStatusUpdated, f.sendDLQ),
                 "Failed to publish OrderCancelledEvent", 0)
    ELSE
    LET n == Publish(c, NotificationSent,
                     MarshalNotificationSent(event.OrderID,
                         getNotificationMessage(event.HasStock, event.ProductID)),
                     InventoryStatusUpdated, f.sendNotification)
    IN
    IF n.err
    THEN Outcome(S, Publish(n, DlqName(InventoryStatusUpdated), msgBody,
                            InventoryStatusUpdated, f.sendDLQ),
                 "Failed to publish NotificationSentEvent", 0)
    ELSE Outcome(S, n, "Notification sent and event published", 0)

OrderCancelledEventHandler_Handle(S, msgBody, f) ==
    LET event == UnmarshalOrderCancelled(msgBody) IN
    IF event.err
    THEN Outcome(S, Publish(Begin(S), DlqName(OrderCancelled), msgBody, OrderCancelled, f.sendDLQ),
                 "Failed to unmarshal OrderCancelledEvent", 0)
    ELSE
    LET g == GetOrderByID(S.orders, event.OrderID, f.getOk) IN
    IF g.err
    THEN Outcome(S, Publish(Begin(S), DlqName(OrderCancelled), msgBody, OrderCancelled, f.sendDLQ),
                 "Failed to get order for cancellation", IF f.getOk THEN 0 ELSE 1)
    ELSE
    LET r == ReleaseReservedProduct(S.products, g.order.product.id,
                                    g.order.product.quantity, f.driverErr)
    IN
    IF r.err
    THEN Outcome(S, Publish(Begin(S), DlqName(OrderCancelled), msgBody, OrderCancelled, f.sendDLQ),
                 "Error releasing reserved product through inventory service", 1)
    ELSE
    LET S1 == [S EXCEPT !.products = r.products]
        u == UpdateOrder(S.orders, event.OrderID, [status |-> "Cancelled"], f.updateOk)
    IN
    IF u.err
    THEN Outcome(S1, Publish(Begin(S), DlqName(OrderCancelled), msgBody, OrderCancelled, f.sendDLQ),
                 "Failed to update order status to cancelled", 1)
    ELSE Outcome([S1 EXCEPT !.orders = u.orders], Begin(S),
                 "Order cancelled and inventory released", 0)

NotificationSentEventHandler_Handle_LogsOnly(S, msgBody, f) ==
    LET event == UnmarshalNotificationSent(msgBody) IN
    IF event.err THEN Outcome(S, Begin(S), "Failed to unmarshal NotificationSentEvent", 0)
    ELSE Outcome(S, Begin(S), "Order updated with notification status", 0)

NotificationSentEventHandler_Handle(S, msgBody, f) ==
    LET event == UnmarshalNotificationSent(msgBody) IN
    IF event.err THEN Outcome(S, Begin(S), "Failed to unmarshal NotificationSentEvent", 0)
    ELSE
    LET u == UpdateOrder(S.orders, event.OrderID,
                         [notificationStatus |-> "sent", notificationMessage |-> event.Message],
                         f.updateOk)
    IN
    IF u.err
    THEN Outcome(S, Begin(S), "Failed to update order with notification status", 1)
    ELSE Outcome([S EXCEPT !.orders = u.orders], Begin(S),
                 "Order updated with notification status", 0)

(***************************************************************************)
(* Dead-letter capture (dlq package).  The three handlers differ in the    *)
(* envelope they try to read the order id from.                            *)
(***************************************************************************)
DLQOrderID_AlwaysUnknown(dlq, msgBody) == "unknown"

DLQOrderID(dlq, msgBody) ==
    CASE dlq = DlqName(OrderCreated) ->
            IF UnmarshalOrderEvent(msgBody).err THEN "unknown"
            ELSE UnmarshalOrderEvent(msgBody).ID
      [] dlq = DlqName(OrderCancelled) ->
            IF UnmarshalOrderCancelled(msgBody).err THEN "unknown"
            ELSE UnmarshalOrderCancelled(msgBody).OrderID
      [] dlq = DlqName(InventoryStatusUpdated) ->
            IF UnmarshalInventoryStatusUpdated(msgBody).err THEN "unknown"
            ELSE UnmarshalInventoryStatusUpdated(msgBody).OrderID

DLQHandler_Handle_Republishes(S, dlq, msgBody, f) ==
    LET s == StoreEventForReplay([events |-> S.events, now |-> S.now],
                                 DLQOrderID(dlq, msgBody), msgBody, f.tick, f.storeOk)
    IN Outcome([S EXCEPT !.events = s.events, !.now = s.now],
               Publish(Begin(S), OrderCreated, msgBody, dlq, TRUE),
               IF s.err THEN "Failed to store DLQ event for replay"
               ELSE "DLQ event stored for replay",
               IF jsonValid(msgBody) /\ s.err THEN 1 ELSE 0)

DLQHandler_Handle(S, dlq, msgBody, f) ==
    LET s == StoreEventForReplay([events |-> S.events, now |-> S.now],
                                 DLQOrderID(dlq, msgBody), msgBody, f.tick, f.storeOk)
    IN Outcome([S EXCEPT !.events = s.events, !.now = s.now], Begin(S),
               IF s.err THEN "Failed to store DLQ event for replay"
               ELSE "DLQ event stored for replay",
               IF jsonValid(msgBody) /\ s.err THEN 1 ELSE 0)

\* The queues main registers a handler for.
dlqQueues ==
    {DlqName(OrderCreated), DlqName(OrderCancelled), DlqName(InventoryStatusUpdated)}

handlers == eventQueues \cup dlqQueues

Handle(q, S, msgBody, f) ==
    CASE q = OrderRequested -> OrderRequestedEventHandler_Handle(S, msgBody, f)
      [] q = OrderCreated -> OrderCreatedEventHandler_Handle(S, msgBody, f)
      [] q = OrderCancelled -> OrderCancelledEventHandler_Handle(S, msgBody, f)
      [] q = InventoryStatusUpdated -> InventoryStatusUpdatedEventHandler_Handle(S, msgBody, f)
      [] q = NotificationSent -> NotificationSentEventHandler_Handle(S, msgBody, f)
      [] q \in dlqQueues -> DLQHandler_Handle(S, q, msgBody, f)

(***************************************************************************)
(* Order service: CreateOrder (client call).                               *)
(***************************************************************************)
orderService_CreateOrder_InsertsOrder(S, order, f) ==
    IF order.ID = "" THEN Outcome(S, Begin(S), "order ID is required", 0)
    ELSE IF order.Product.id = "" THEN Outcome(S, Begin(S), "product ID is required", 0)
    ELSE IF order.Product.quantity <= 0
    THEN Outcome(S, Begin(S), "product quantity must be greater than 0", 0)
    ELSE IF order.Amount <= 0
    THEN Outcome(S, Begin(S), "order amount must be greater than 0", 0)
    ELSE IF ~ValidateOrderRequested(order)
    THEN Outcome(S, Begin(S), "invalid order request", 0)
    ELSE
    LET p == publishWithRetry(Begin(S), OrderRequested,
                              MarshalOrderEvent(order.ID, order.Product, order.Amount,
                                                OrderStatusRequested),
                              "CreateOrder", f.send, 1, 2)
        c == CreateOrder(S.orders, order.ID, order.Amount, "Pending", order.Product, TRUE)
    IN Outcome([S EXCEPT !.orders = c.orders], p,
               IF p.err THEN "failed to publish order request"
               ELSE "OrderRequested event published successfully", 0)

orderService_CreateOrder(S, order, f) ==
    IF order.ID = "" THEN Outcome(S, Begin(S), "order ID is required", 0)
    ELSE IF order.Product.id = "" THEN Outcome(S, Begin(S), "product ID is required", 0)
    ELSE IF order.Product.quantity <= 0
    THEN Outcome(S, Begin(S), "product quantity must be greater than 0", 0)
    ELSE IF order.Amount <= 0
    THEN Outcome(S, Begin(S), "order amount must be greater than 0", 0)
    ELSE IF ~ValidateOrderRequested(order)
    THEN Outcome(S, Begin(S), "invalid order request", 0)
    ELSE
    LET p == publishWithRetry(Begin(S), OrderRequested,
                              MarshalOrderEvent(order.ID, order.Product, order.Amount,
                                                OrderStatusRequested),
                              "CreateOrder", f.send, 1, 2)
    IN Outcome(S, p, IF p.err THEN "failed to publish order request"
                     ELSE "OrderRequested event published successfully", 0)

(***************************************************************************)
(* Replay coordinator (orderService.ReplayFailedEvents) and the event      *)
(* store operations it uses.                                               *)
(***************************************************************************)
batchSize == 100

RECURSIVE InsertByCreatedAt(_, _)
InsertByCreatedAt(sorted, e) ==
    IF sorted = <<>> THEN <<e>>
    ELSE IF sorted[Len(sorted)].CreatedAt <= e.CreatedAt THEN Append(sorted, e)
    ELSE Append(InsertByCreatedAt(SubSeq(sorted, 1, Len(sorted) - 1), e), sorted[Len(sorted)])

SortByCreatedAt_NaturalOrder(es) == es

\* Sort {createdAt: 1}: ascending, ties in natural (insertion) order.
RECURSIVE SortByCreatedAt(_)
SortByCreatedAt(es) ==
    IF es = <<>> THEN <<>>
    ELSE InsertByCreatedAt(SortByCreatedAt(SubSeq(es, 1, Len(es) - 1)), es[Len(es)])

\* A filter that leaves out only the records a run is working on.
Unreplayed_AllButReplaying(e) == e.Status # EventStatusReplaying

Unreplayed(e) == e.Replayed # TRUE /\ e.Status \in {EventStatusPending, EventStatusFailed}

\* The documents the filter {replayed: {$ne: true}, status: {$in: [pending, failed]}} keeps.
RECURSIVE FilterUnreplayed(_)
FilterUnreplayed(es) ==
    IF es = <<>> THEN <<>>
    ELSE IF Unreplayed(es[1]) THEN <<es[1]>> \o FilterUnreplayed(Tail(es))
    ELSE FilterUnreplayed(Tail(es))

GetUnreplayedEvents(events, limit, findOk) ==
    IF ~findOk THEN [err |-> TRUE, events |-> <<>>]
    ELSE [err |-> FALSE,
          events |-> SubSeq(SortByCreatedAt(FilterUnreplayed(events)), 1,
                            IF Len(FilterUnreplayed(events)) < limit
                            THEN Len(FilterUnreplayed(events)) ELSE limit)]

SetWhere(events, eventID, fields) ==
    [i \in DOMAIN events |->
        IF events[i].ID = eventID
        THEN [k \in DOMAIN events[i] |-> IF k \in DOMAIN fields THEN fields[k] ELSE events[i][k]]
        ELSE events[i]]

MarkEventAsReplaying(events, eventID, updateOk) ==
    IF updateOk THEN SetWhere(events, eventID, [Status |-> EventStatusReplaying]) ELSE events

MarkEventAsCompleted_StatusOnly(es, eventID, tick, updateOk) ==
    IF updateOk
    THEN [events |-> SetWhere(es.events, eventID, [Status |-> EventStatusCompleted]),
          now |-> es.now + tick]
    ELSE es

MarkEventAsCompleted(es, eventID, tick, updateOk) ==
    IF updateOk
    THEN [events |-> SetWhere(es.events, eventID,
                        [Status |-> EventStatusCompleted, Replayed |-> TRUE,
                         ReplayedAt |-> es.now + tick]),
          now |-> es.now + tick]
    ELSE es

MarkEventAsFailed(events, eventID, updateOk) ==
    IF updateOk THEN SetWhere(events, eventID, [Status |-> EventStatusFailed]) ELSE events

\* The body of the loop over the fetched events, for one event evt.  The
\* routing key is the hard-coded "order.created".
ReplayOne(S, evt, f) ==
    LET marked == MarkEventAsReplaying(S.events, evt.ID, f.markOk)
        p == publishWithRetry(Begin(S), "order.created", evt.EventData, "replay", f.send, 1, 3)
        c == MarkEventAsCompleted([events |-> marked, now |-> S.now], evt.ID, f.tick, f.endOk)
    IN
    IF ~p.err
    THEN [out |-> Outcome([S EXCEPT !.events = c.events, !.now = c.now], p,
                          IF f.endOk THEN "successfully replayed and marked as completed"
                          ELSE "Failed to mark event as completed",
                          (IF f.markOk THEN 0 ELSE 1) + (IF f.endOk THEN 0 ELSE 1)),
          success |-> IF f.endOk THEN 1 ELSE 0, failure |-> 0]
    ELSE [out |-> Outcome([S EXCEPT !.events = MarkEventAsFailed(marked, evt.ID, f.endOk)], p,
                          "Replay failed after retries",
                          (IF f.markOk THEN 0 ELSE 1) + (IF f.endOk THEN 0 ELSE 1)),
          success |-> 0, failure |-> 1]

(***************************************************************************)
(* Values of the variables before anything has run.                        *)
(***************************************************************************)
NoStep == [op |-> "none"]

\* seedProducts: every product starts with nothing reserved.
SeededProducts == [p \in {"p1"} |-> [quantity |-> 1, reserved |-> 0]]

SagaIdle ==
    /\ queues = [q \in boundQueues |-> <<>>]
    /\ orders = <<>>
    /\ order_events = <<>>
    /\ now = 0
    /\ replay = [running |-> FALSE]
    /\ used = [creates |-> 0, foreign |-> 0, faults |-> 0, replays |-> 0]
    /\ last = NoStep

ListenerIdle ==
    /\ loops = <<>>
    /\ broker = [ctxDone |-> FALSE, up |-> TRUE]

InventoryIdle == inv = [calls |-> 0, hist |-> <<>>]

ValidateIdle == val = [kind |-> "none"]

(***************************************************************************)
(* SpecValidate: Validate applied to any envelope of any of the five       *)
(* types.                                                                  *)
(***************************************************************************)
EnvelopeIDs == {"", "o1"}
EnvelopeQuantities == {-1, 0, 1, 2}
EnvelopeAmounts == {-1, 0, 1}

Products ==
    [id : {"", "p1"}, name : {"", "Laptop"}, quantity : EnvelopeQuantities]

Envelopes(kind) ==
    CASE kind \in {OrderRequested, OrderCreated} ->
            [ID : EnvelopeIDs, Product : Products, Amount : EnvelopeAmounts,
             Status : {"", "Processing"}]
      [] kind = OrderCancelled ->
            [OrderID : EnvelopeIDs, Status : {"", "Cancelled"}]
      [] kind = InventoryStatusUpdated ->
            [OrderID : EnvelopeIDs, ProductID : {"", "p1"}, HasStock : BOOLEAN]
      [] kind = NotificationSent ->
            [OrderID : EnvelopeIDs, Message : {"", "Order confirmed for product: p1"}]

InitValidate ==
    /\ SagaIdle /\ ListenerIdle /\ InventoryIdle /\ ValidateIdle
    /\ products = SeededProducts

ValidateEnvelope ==
    /\ \E kind \in eventQueues : \E e \in Envelopes(kind) :
          val' = [kind |-> kind, event |-> e, ok |-> Validate(kind, e)]
    /\ UNCHANGED <<sagaVars, products, listenerVars, inv>>

NextValidate == ValidateEnvelope

SpecValidate == InitValidate /\ [][NextValidate]_vars

(***************************************************************************)
(* SpecInventory: reserve and release calls on the products collection.    *)
(* inv.hist keeps the last two calls, each with the collection before and  *)
(* after it.                                                               *)
(***************************************************************************)
ProductIDs == {"p1", "p2"}
CallProductIDs == ProductIDs \cup {"pX"}
CallQuantities == (-1)..(MaxQty + 1)

LastTwo(hist, call) ==
    IF Len(hist) < 2 THEN Append(hist, call) ELSE <<hist[2], call>>

InitInventory ==
    /\ SagaIdle /\ ListenerIdle /\ InventoryIdle /\ ValidateIdle
    /\ products \in [ProductIDs -> [quantity : 0..MaxQty, reserved : {0}]]

Reserve ==
    /\ inv.calls < MaxInvCalls
    /\ \E p \in CallProductIDs, n \in CallQuantities, driverErr \in BOOLEAN :
          LET r == ReserveProduct(products, p, n, driverErr) IN
          /\ products' = r.products
          /\ inv' = [calls |-> inv.calls + 1,
                     hist |-> LastTwo(inv.hist,
                                [op |-> "reserve", p |-> p, n |-> n, driverErr |-> driverErr,
                                 ok |-> r.ok, err |-> r.err,
                                 before |-> products, after |-> r.products])]
    /\ UNCHANGED <<sagaVars, listenerVars, val>>

Release ==
    /\ inv.calls < MaxInvCalls
    /\ \E p \in CallProductIDs, n \in CallQuantities, driverErr \in BOOLEAN :
          LET r == ReleaseReservedProduct(products, p, n, driverErr) IN
          /\ products' = r.products
          /\ inv' = [calls |-> inv.calls + 1,
                     hist |-> LastTwo(inv.hist,
                                [op |-> "release", p |-> p, n |-> n, driverErr |-> driverErr,
                                 ok |-> ~r.err, err |-> r.err,
                                 before |-> products, after |-> r.products])]
    /\ UNCHANGED <<sagaVars, listenerVars, val>>

NextInventory == Reserve \/ Release

SpecInventory == InitInventory /\ [][NextInventory]_vars

(***************************************************************************)
(* Spec: the saga.  Clients call CreateOrder and ReplayFailedEvents, a     *)
(* producer outside the program may put undecodable bytes on an event      *)
(* queue, and the listener hands any waiting message of a queue to the     *)
(* queue's handler (each delivery runs in a goroutine of its own, so the   *)
(* order of handling within a queue is free).  A handler runs as one step. *)
(***************************************************************************)
\* json.Unmarshal into the envelope type the handler of queue q decodes.
Unmarshal(q, body) ==
    CASE q \in {OrderRequested, OrderCreated, DlqName(OrderCreated)} -> UnmarshalOrderEvent(body)
      [] q \in {OrderCancelled, DlqName(OrderCancelled)} -> UnmarshalOrderCancelled(body)
      [] q \in {InventoryStatusUpdated, DlqName(InventoryStatusUpdated)} ->
            UnmarshalInventoryStatusUpdated(body)
      [] q = NotificationSent -> UnmarshalNotificationSent(body)

\* A retry loop stops at its first success: what matters of its sends is how
\* many fail before one succeeds (all n may fail).
SendOutcomes(n) == {[a \in 1..n |-> a > k] : k \in 0..n}

\* Outcomes of the broker and store calls a step may make.  tick: the clock
\* moves on between two reads of time.Now(), so no two timestamps tie.
Flags(q) ==
    CASE q = OrderRequested ->
            [insertOk : BOOLEAN, send : SendOutcomes(3), tick : {1}, storeOk : BOOLEAN]
      [] q = OrderCreated ->
            [driverErr : BOOLEAN, updateOk : BOOLEAN, sendNext : BOOLEAN, sendDLQ : BOOLEAN]
      [] q = InventoryStatusUpdated ->
            [sendCancelled : BOOLEAN, sendNotification : BOOLEAN, sendDLQ : BOOLEAN]
      [] q = OrderCancelled ->
            [getOk : BOOLEAN, driverErr : BOOLEAN, updateOk : BOOLEAN, sendDLQ : BOOLEAN]
      [] q = NotificationSent -> [updateOk : BOOLEAN]
      [] q \in dlqQueues -> [tick : {1}, storeOk : BOOLEAN]
      [] q = "CreateOrder" -> [send : SendOutcomes(2)]
      [] q = "replay" ->
            [markOk : BOOLEAN, send : SendOutcomes(3), tick : {1}, endOk : BOOLEAN]

State == [qs |-> queues, orders |-> orders, products |-> products,
          events |-> order_events, now |-> now]

\* A step in which some broker or store call failed is one disturbance.
Faulty(r) == IF r.faults > 0 THEN 1 ELSE 0

Disturbances == used.foreign + used.faults

Commit(r) ==
    /\ Disturbances + Faulty(r) <= MaxDisturbances
    /\ queues' = r.qs
    /\ orders' = r.orders
    /\ products' = r.products
    /\ order_events' = r.events
    /\ now' = r.now

StepRecord(op, q, body, by, r) ==
    [op |-> op, queue |-> q, body |-> body, by |-> by,
     pubs |-> r.pubs, log |-> r.log, faults |-> r.faults]

\* OrderController.CreateOrder: the id is a fresh uuid.  The request body
\* gives product and amount.
ClientOrders(k) ==
    [ID : {"o" \o ToString(k)},
     Product : [id : {"p1"}, name : {"Laptop"}, quantity : {0, 1, 2}],
     Amount : {0, 1}]

Init ==
    /\ SagaIdle /\ ListenerIdle /\ InventoryIdle /\ ValidateIdle
    /\ products = SeededProducts

\* A ReplayFailedEvents call runs as one step of the saga; the model shows
\* its loop turn by turn and lets nothing else run in between.
NoReplayRunning == ~replay.running

ClientCreateOrder ==
    /\ NoReplayRunning
    /\ used.creates < MaxCreates
    /\ \E order \in ClientOrders(used.creates + 1), f \in Flags("CreateOrder") :
          \E r \in {orderService_CreateOrder(State, order, f)} :
          /\ Commit(r)
          /\ used' = [used EXCEPT !.creates = @ + 1, !.faults = @ + Faulty(r)]
          /\ last' = StepRecord("CreateOrder", "", order, "client", r)
    /\ UNCHANGED <<replay, listenerVars, inv, val>>

ForeignBodies == {InvalidJSON, MistypedJSON}

\* Bytes no publisher of this program produced arrive on an event queue.
ForeignPublish ==
    /\ NoReplayRunning
    /\ Disturbances < MaxDisturbances
    /\ \E q \in eventQueues, body \in ForeignBodies :
          /\ queues' = [queues EXCEPT ![q] = Append(@, [body |-> body, by |-> "foreign"])]
          /\ last' = [op |-> "foreign", queue |-> q, body |-> body, by |-> "foreign",
                      pubs |-> <<>>, log |-> "", faults |-> 0]
    /\ used' = [used EXCEPT !.foreign = @ + 1]
    /\ UNCHANGED <<orders, products, order_events, now, replay, listenerVars, inv, val>>

\* listenToQueue hands message i of queue q to the handler registered for q
\* and acknowledges it when the handler returns (whatever the handler did).
Deliver(q) ==
    /\ NoReplayRunning
    /\ \E i \in 1..Len(queues[q]) : \E f \in Flags(q) :
          \E r \in {Handle(q, [State EXCEPT !.qs = [queues EXCEPT ![q] = Remove(@, i)]],
                          queues[q][i].body, f)} :
          /\ Commit(r)
          /\ used' = [used EXCEPT !.faults = @ + Faulty(r)]
          /\ last' = StepRecord("handle", q, queues[q][i].body, queues[q][i].by, r)
    /\ UNCHANGED <<replay, listenerVars, inv, val>>

HandleOrderRequested == Deliver(OrderRequested)
HandleOrderCreated == Deliver(OrderCreated)
HandleInventoryStatusUpdated == Deliver(InventoryStatusUpdated)
HandleOrderCancelled == Deliver(OrderCancelled)
HandleNotificationSent == Deliver(NotificationSent)
HandleDLQ == \E q \in dlqQueues : Deliver(q)

\* ReplayFailedEvents up to the loop: fetch the batch.  maxReplays bounds
\* the calls counted in used.replays: every call, or (countsEmpty false) the
\* calls that fetched a batch, a call that finds nothing to do being free.
ReplayFetchWithin(maxReplays, countsEmpty) ==
    /\ NoReplayRunning
    /\ used.replays < maxReplays
    /\ \E findOk \in BOOLEAN :
          \E g \in {GetUnreplayedEvents(order_events, batchSize, findOk)} :
          /\ Disturbances + (IF g.err THEN 1 ELSE 0) <= MaxDisturbances
          /\ used' = [used EXCEPT !.replays = IF countsEmpty \/ g.events # <<>>
                                              THEN @ + 1 ELSE @,
                                  !.faults = @ + (IF g.err THEN 1 ELSE 0)]
          /\ IF g.err \/ g.events = <<>>
             THEN /\ replay' = [running |-> FALSE]
                  /\ last' = [op |-> "replayReturn", queue |-> "", body |-> NilBody,
                              by |-> "replay", pubs |-> <<>>,
                              log |-> IF g.err THEN "failed to fetch unreplayed events"
                                      ELSE "No events to replay",
                              faults |-> IF g.err THEN 1 ELSE 0,
                              err |-> g.err, successCount |-> 0, failureCount |-> 0,
                              fetched |-> 0]
             ELSE /\ replay' = [running |-> TRUE, events |-> g.events, next |-> 1,
                                successCount |-> 0, failureCount |-> 0]
                  /\ last' = [op |-> "replayFetch", queue |-> "", body |-> NilBody,
                              by |-> "replay", pubs |-> <<>>,
                              log |-> "Starting replay", faults |-> 0]
    /\ UNCHANGED <<queues, orders, products, order_events, now, listenerVars, inv, val>>

ReplayFetch == ReplayFetchWithin(MaxReplays, TRUE)

\* One turn of the loop over the fetched events.
ReplayEvent ==
    /\ replay.running
    /\ replay.next <= Len(replay.events)
    /\ \E f \in Flags("replay") :
          \E evt \in {replay.events[replay.next]} :
          \E r \in {ReplayOne(State, evt, f)} :
          /\ Commit(r.out)
          /\ used' = [used EXCEPT !.faults = @ + Faulty(r.out)]
          /\ replay' = [replay EXCEPT !.next = @ + 1,
                                      !.successCount = @ + r.success,
                                      !.failureCount = @ + r.failure]
          /\ last' = [StepRecord("replayEvent", "", evt.EventData, "replay", r.out)
                        EXCEPT !.queue = ""] @@ [event |-> evt]
    /\ UNCHANGED <<listenerVars, inv, val>>

\* After the loop: an error iff some event could not be published.
ReplayReturn ==
    /\ replay.running
    /\ replay.next > Len(replay.events)
    /\ replay' = [running |-> FALSE]
    /\ last' = [op |-> "replayReturn", queue |-> "", body |-> NilBody, by |-> "replay",
                pubs |-> <<>>, log |-> "Replay completed", faults |-> 0,
                err |-> replay.failureCount > 0,
                successCount |-> replay.successCount,
                failureCount |-> replay.failureCount,
                fetched |-> Len(replay.events)]
    /\ UNCHANGED <<queues, orders, products, order_events, now, used, listenerVars, inv, val>>

Next ==
    \/ ClientCreateOrder
    \/ ForeignPublish
    \/ HandleOrderRequested
    \/ HandleOrderCreated
    \/ HandleInventoryStatusUpdated
    \/ HandleOrderCancelled
    \/ HandleNotificationSent
    \/ HandleDLQ
    \/ ReplayFetch
    \/ ReplayEvent
    \/ ReplayReturn

Spec == Init /\ [][Next]_vars

\* The saga on a products collection that holds more of the product than
\* one order asks for, as after seedProducts.
StockedQuantity == 2   \* seeded quantity of p1 in SpecStocked: twice the smallest order

StockedProducts == [p \in {"p1"} |-> [quantity |-> StockedQuantity, reserved |-> 0]]

InitStocked ==
    /\ SagaIdle /\ ListenerIdle /\ InventoryIdle /\ ValidateIdle
    /\ products = StockedProducts

SpecStocked == InitStocked /\ [][Next]_vars

(***************************************************************************)
(* SpecHealthy: the saga with a healthy broker and store and no producer   *)
(* but the program itself.  The steps are those of Spec in which no broker *)
(* or store call fails.                                                    *)
(***************************************************************************)
Healthy(step) == step /\ used'.faults = 0

\* Work in progress: a waiting message is handed to its handler (the listener
\* has a consumer on every queue), a replay call that has fetched its batch
\* goes on with its loop.
SagaStep ==
    \/ \E q \in boundQueues : Deliver(q)
    \/ ReplayEvent
    \/ ReplayReturn

NextHealthy ==
    \/ Healthy(ClientCreateOrder)
    \/ Healthy(HandleOrderRequested)
    \/ Healthy(HandleOrderCreated)
    \/ Healthy(HandleInventoryStatusUpdated)
    \/ Healthy(HandleOrderCancelled)
    \/ Healthy(HandleNotificationSent)
    \/ Healthy(HandleDLQ)
    \/ Healthy(ReplayFetch)
    \/ Healthy(ReplayEvent)
    \/ Healthy(ReplayReturn)

\* The program does not stop while it has work, and needs no client call to
\* go on with it.
SagaFairness == WF_vars(Healthy(SagaStep))

SpecHealthy == Init /\ [][NextHealthy]_vars /\ SagaFairness

(***************************************************************************)
(* SpecRepeatedReplay: SpecHealthy with ReplayFailedEvents called again    *)
(* and again: the administrator triggers a run whenever none is running,   *)
(* as long as runs that fetched a batch are fewer than MaxReplayRuns.      *)
(***************************************************************************)
MaxReplayRuns == 3   \* ReplayFailedEvents calls that fetched a batch (SpecRepeatedReplay)

ReplayFetchAgain == ReplayFetchWithin(MaxReplayRuns, FALSE)

NextRepeatedReplay ==
    \/ Healthy(ClientCreateOrder)
    \/ Healthy(HandleOrderRequested)
    \/ Healthy(HandleOrderCreated)
    \/ Healthy(HandleInventoryStatusUpdated)
    \/ Healthy(HandleOrderCancelled)
    \/ Healthy(HandleNotificationSent)
    \/ Healthy(HandleDLQ)
    \/ Healthy(ReplayFetchAgain)
    \/ Healthy(ReplayEvent)
    \/ Healthy(ReplayReturn)

\* The program goes on with its work, and the runs are repeated.
RepeatedReplayFairness ==
    /\ WF_vars(Healthy(SagaStep))
    /\ WF_vars(Healthy(ReplayFetchAgain))

SpecRepeatedReplay == Init /\ [][NextRepeatedReplay]_vars /\ RepeatedReplayFairness

(***************************************************************************)
(* SpecListener: EventListener.listenToQueue, one loop (goroutine) per     *)
(* registered queue; two of the eight loops are enough to show one loop    *)
(* and its neighbour.  loops[q] is the loop's position and local           *)
(* variables, broker the connection, the context and, per queue, the       *)
(* delivery channel Consume returned and the messages waiting for it.      *)
(***************************************************************************)
listenQueues == {OrderCreated, DlqName(OrderCreated)}

maxRetries == 5
initialRetryDelay == 2

InitListener ==
    /\ SagaIdle /\ InventoryIdle /\ ValidateIdle
    /\ products = SeededProducts
    /\ loops = [q \in listenQueues |->
                  [pc |-> "consume", attempt |-> 1, retryDelay |-> initialRetryDelay,
                   dispatched |-> 0, closedReads |-> 0, handlers |-> <<>>]]
    /\ broker = [ctxDone |-> FALSE, up |-> TRUE,
                 msgs |-> [q \in listenQueues |-> "none"],
                 waiting |-> [q \in listenQueues |-> 0],
                 arrived |-> [q \in listenQueues |-> 0]]

\* msgs, err := Consume(queueName) with err == nil: on to the message loop.
ConsumeOk(q) ==
    /\ loops[q].pc = "consume"
    /\ broker.up
    /\ loops' = [loops EXCEPT ![q].pc = "select"]
    /\ broker' = [broker EXCEPT !.msgs[q] = "open"]
    /\ UNCHANGED <<sagaVars, products, inv, val>>

\* Consume returns an error (always, once the connection is closed): give
\* up at the last attempt, else sleep.
ConsumeErr(q) ==
    /\ loops[q].pc = "consume"
    /\ loops' = [loops EXCEPT ![q].pc =
                    IF loops[q].attempt = maxRetries THEN "returned" ELSE "sleep"]
    /\ UNCHANGED <<sagaVars, products, broker, inv, val>>

Backoff_ConstantDelay(q) ==
    /\ loops[q].pc = "sleep"
    /\ loops' = [loops EXCEPT ![q].pc = "consume", ![q].attempt = @ + 1]
    /\ UNCHANGED <<sagaVars, products, broker, inv, val>>

\* time.Sleep(retryDelay); retryDelay *= 2; continue (attempt++).
Backoff(q) ==
    /\ loops[q].pc = "sleep"
    /\ loops' = [loops EXCEPT ![q].pc = "consume",
                              ![q].retryDelay = @ * 2,
                              ![q].attempt = @ + 1]
    /\ UNCHANGED <<sagaVars, products, broker, inv, val>>

SelectDone_OnlyWhenMessageWaiting(q) ==
    /\ loops[q].pc = "select"
    /\ broker.ctxDone
    /\ broker.waiting[q] > 0
    /\ loops' = [loops EXCEPT ![q].pc = "returned"]
    /\ UNCHANGED <<sagaVars, products, broker, inv, val>>

\* case <-ctx.Done(): return
SelectDone(q) ==
    /\ loops[q].pc = "select"
    /\ broker.ctxDone
    /\ loops' = [loops EXCEPT ![q].pc = "returned"]
    /\ UNCHANGED <<sagaVars, products, broker, inv, val>>

\* go func() { handler.Handle(ctx, msg.Body); msg.Ack(false) }(): the
\* goroutine of one delivery.  handled is how Handle ended ("ok", or
\* "failed" when it took one of its error branches: Handle returns nothing),
\* ack what became of msg.Ack.
handlerGoroutine_AcksFirst == [pc |-> "ack", handled |-> "none", ack |-> "none"]

handlerGoroutine == [pc |-> "handle", handled |-> "none", ack |-> "none"]

\* msg.Ack(false) goes out on the one AMQP channel of the service: it fails
\* once the connection is lost.  The goroutine drops the error.
Ack(up) == IF up THEN "acked" ELSE "error"

\* case msg, ok := <-msgs with ok: start the handler goroutine, loop.
SelectDelivery(q) ==
    /\ loops[q].pc = "select"
    /\ broker.msgs[q] = "open"
    /\ broker.waiting[q] > 0
    /\ broker' = [broker EXCEPT !.waiting[q] = @ - 1]
    /\ loops' = [loops EXCEPT ![q].dispatched = @ + 1,
                              ![q].handlers = Append(@, handlerGoroutine)]
    /\ UNCHANGED <<sagaVars, products, inv, val>>

\* handler.Handle(ctx, msg.Body) returns in the goroutine of a delivery.
HandlerReturns(q) ==
    /\ \E i \in 1..Len(loops[q].handlers), how \in {"ok", "failed"} :
          /\ loops[q].handlers[i].pc = "handle"
          /\ loops' = [loops EXCEPT ![q].handlers[i].pc = "ack",
                                    ![q].handlers[i].handled = how]
    /\ UNCHANGED <<sagaVars, products, broker, inv, val>>

\* msg.Ack(false) in the goroutine of a delivery; the goroutine ends.
HandlerAck(q) ==
    /\ \E i \in 1..Len(loops[q].handlers) :
          /\ loops[q].handlers[i].pc = "ack"
          /\ loops' = [loops EXCEPT ![q].handlers[i].pc = "done",
                                    ![q].handlers[i].ack = Ack(broker.up)]
    /\ UNCHANGED <<sagaVars, products, broker, inv, val>>

\* case msg, ok := <-msgs with !ok: log, break.  The break leaves the
\* select statement; the enclosing for { } goes round again.  closedReads
\* counts these receives up to MaxClosedReads.
SelectClosed(q) ==
    /\ loops[q].pc = "select"
    /\ broker.msgs[q] = "closed"
    /\ loops[q].closedReads < MaxClosedReads
    /\ loops' = [loops EXCEPT ![q].closedReads = @ + 1]
    /\ UNCHANGED <<sagaVars, products, broker, inv, val>>

\* The connection (and with it the one AMQP channel of the service) fails:
\* every delivery channel is closed.  The service never dials again.
BrokerFailure ==
    /\ broker.up
    /\ broker' = [broker EXCEPT !.up = FALSE,
                                !.msgs = [q \in listenQueues |->
                                            IF broker.msgs[q] = "open" THEN "closed"
                                            ELSE broker.msgs[q]]]
    /\ UNCHANGED <<sagaVars, products, loops, inv, val>>

\* The broker cancels one consumer (its queue was deleted, say): that
\* delivery channel is closed, the connection stays.
ConsumerCancelled(q) ==
    /\ broker.msgs[q] = "open"
    /\ broker' = [broker EXCEPT !.msgs[q] = "closed"]
    /\ UNCHANGED <<sagaVars, products, loops, inv, val>>

MessageArrives(q) ==
    /\ broker.arrived[q] < MaxArrivals
    /\ broker' = [broker EXCEPT !.arrived[q] = @ + 1, !.waiting[q] = @ + 1]
    /\ UNCHANGED <<sagaVars, products, loops, inv, val>>

\* main: cancel() on a shutdown signal.
Shutdown ==
    /\ ~broker.ctxDone
    /\ broker' = [broker EXCEPT !.ctxDone = TRUE]
    /\ UNCHANGED <<sagaVars, products, loops, inv, val>>

NextListener ==
    \/ \E q \in listenQueues : ConsumeOk(q)
    \/ \E q \in listenQueues : ConsumeErr(q)
    \/ \E q \in listenQueues : Backoff(q)
    \/ \E q \in listenQueues : SelectDone(q)
    \/ \E q \in listenQueues : SelectDelivery(q)
    \/ \E q \in listenQueues : SelectClosed(q)
    \/ \E q \in listenQueues : HandlerReturns(q)
    \/ \E q \in listenQueues : HandlerAck(q)
    \/ \E q \in listenQueues : ConsumerCancelled(q)
    \/ \E q \in listenQueues : MessageArrives(q)
    \/ BrokerFailure
    \/ Shutdown

SpecListener == InitListener /\ [][NextListener]_vars

\* One step of the loop goroutine of queue q.
LoopStep(q) ==
    \/ ConsumeOk(q) \/ ConsumeErr(q) \/ Backoff(q)
    \/ SelectDone(q) \/ SelectDelivery(q) \/ SelectClosed(q)

\* The Go scheduler keeps every goroutine that can run running: a loop
\* takes its next step, Handle returns, Ack is called.  (A select with
\* several ready cases picks one at random, so a ready ctx.Done() is not
\* passed over for ever.)
ListenerFairness ==
    \A q \in listenQueues :
        /\ WF_vars(LoopStep(q))
        /\ WF_vars(HandlerReturns(q))
        /\ WF_vars(HandlerAck(q))

SpecListenerFair == SpecListener /\ ListenerFairness

\* StartListening: wg.Wait() returns when every loop goroutine has run its
\* deferred wg.Done(); the handler goroutines are not in the wait group.
StartListeningReturned == \A q \in listenQueues : loops[q].pc = "returned"

(***************************************************************************)
(* SpecPublish: RabbitMQServiceImpl on a fresh broker.  NewRabbitMQService *)
(* declares the configured exchange and binds the queues to it; Publish    *)
(* sends to the exchange it names itself.  Here broker is the service and  *)
(* the broker's topology, queues what the broker has enqueued, last the    *)
(* last Publish call.                                                      *)
(***************************************************************************)
MaxPublishes == 2    \* Publish calls in one behaviour (SpecPublish)

\* Values of RABBITMQ_EXCHANGE: the default and another name.
ExchangeNames == {"order_events", "shop_events"}

\* The exchange Publish passes to channel.Publish.
PublishExchange == "order_events"

Topics == boundQueues \cup {"", "payment.received"}

Bodies == {NilBody, MarshalOrderCancelled("o1", "Cancelled")}

\* NewRabbitMQService(host, exchange, queueName) returning no error: the
\* topic exchange and its dead-letter exchange are declared, each event
\* queue and each <type>.dlq is bound to the exchange under its own name.
NewRabbitMQService(exchange) ==
    [started |-> TRUE, closed |-> FALSE, channel |-> "open", exchange |-> exchange,
     exchanges |-> {exchange, exchange \o ".dlx"},
     bindings |-> {[exchange |-> exchange, key |-> q, queue |-> q] : q \in boundQueues},
     calls |-> 0]

\* Publish(topic, body) up to its return: the error it returns ("" for nil)
\* and the channel.Publish calls it made.  sendErr: the send itself fails.
RabbitMQ_Publish_RetriesOnce(svc, topic, body, sendErr) ==
    IF topic = "" THEN [err |-> "topic cannot be empty", sends |-> <<>>]
    ELSE IF body = NilBody THEN [err |-> "message body cannot be nil", sends |-> <<>>]
    ELSE IF svc.closed THEN [err |-> "connection to RabbitMQ is closed", sends |-> <<>>]
    ELSE IF svc.channel = "nil" THEN [err |-> "channel is not initialized", sends |-> <<>>]
    ELSE LET send == [exchange |-> PublishExchange, key |-> topic, body |-> body,
                      persistent |-> TRUE, failed |-> sendErr \/ svc.channel = "closed"]
         IN [err |-> IF send.failed THEN "failed to publish message" ELSE "",
             sends |-> IF send.failed THEN <<send, send>> ELSE <<send>>]

RabbitMQ_Publish(svc, topic, body, sendErr) ==
    IF topic = "" THEN [err |-> "topic cannot be empty", sends |-> <<>>]
    ELSE IF body = NilBody THEN [err |-> "message body cannot be nil", sends |-> <<>>]
    ELSE IF svc.closed THEN [err |-> "connection to RabbitMQ is closed", sends |-> <<>>]
    ELSE IF svc.channel = "nil" THEN [err |-> "channel is not initialized", sends |-> <<>>]
    ELSE LET send == [exchange |-> PublishExchange, key |-> topic, body |-> body,
                      persistent |-> TRUE, failed |-> sendErr \/ svc.channel = "closed"]
         IN [err |-> IF send.failed THEN "failed to publish message" ELSE "",
             sends |-> <<send>>]

\* The queues a topic exchange delivers a sent message to: those bound to
\* the exchange under the routing key (no binding key has a wildcard).
BoundTo_AnyExchange(svc, send) ==
    {b.queue : b \in {b \in svc.bindings : b.key = send.key}}

BoundTo(svc, send) ==
    {b.queue : b \in {b \in svc.bindings : b.exchange = send.exchange /\ b.key = send.key}}

\* What the broker does with the sends of one call: a send that went out is
\* enqueued where its exchange routes it (nowhere if nothing is bound: the
\* mandatory flag is off); a send to an exchange that does not exist makes
\* the broker close the channel.
RECURSIVE Enqueue(_, _, _)
Enqueue(svc, qs, sends) ==
    IF sends = <<>> THEN [svc |-> svc, qs |-> qs]
    ELSE LET send == sends[1] IN
         IF send.failed THEN Enqueue(svc, qs, Tail(sends))
         ELSE IF send.exchange \notin svc.exchanges
         THEN Enqueue([svc EXCEPT !.channel = "closed"], qs, Tail(sends))
         ELSE Enqueue(svc,
                      [q \in DOMAIN qs |->
                          IF q \in BoundTo(svc, send)
                          THEN Append(qs[q], [body |-> send.body, by |-> "Publish"])
                          ELSE qs[q]],
                      Tail(sends))

NotStarted == [started |-> FALSE]

InitPublish ==
    /\ InventoryIdle /\ ValidateIdle
    /\ products = SeededProducts
    /\ loops = <<>>
    /\ queues = [q \in boundQueues |-> <<>>]
    /\ orders = <<>>
    /\ order_events = <<>>
    /\ now = 0
    /\ used = [creates |-> 0, foreign |-> 0, faults |-> 0, replays |-> 0]
    /\ replay = [running |-> FALSE]
    /\ last = NoStep
    /\ broker = NotStarted

\* main: NewRabbitMQService with the configured exchange name.
Startup ==
    /\ ~broker.started
    /\ \E exchange \in ExchangeNames : broker' = NewRabbitMQService(exchange)
    /\ UNCHANGED <<sagaVars, products, loops, inv, val>>

\* The connection is lost; the service never dials again.
ConnectionLost ==
    /\ broker.started
    /\ ~broker.closed
    /\ broker' = [broker EXCEPT !.closed = TRUE]
    /\ UNCHANGED <<sagaVars, products, loops, inv, val>>

\* One Publish call and what the broker makes of it.
PublishCall ==
    /\ broker.started
    /\ broker.calls < MaxPublishes
    /\ \E topic \in Topics, body \in Bodies, sendErr \in BOOLEAN :
          \E r \in {RabbitMQ_Publish(broker, topic, body, sendErr)} :
          \E e \in {Enqueue(broker, queues, r.sends)} :
          /\ queues' = e.qs
          /\ broker' = [e.svc EXCEPT !.calls = @ + 1]
          /\ last' = [op |-> "Publish", queue |-> topic, body |-> body, by |-> "Publish",
                      pubs |-> r.sends, log |-> r.err, faults |-> 0,
                      before |-> broker,
                      enq |-> {q \in boundQueues : e.qs[q] # queues[q]}]
    /\ UNCHANGED <<orders, order_events, now, replay, used, products, loops, inv, val>>

NextPublish ==
    \/ Startup
    \/ ConnectionLost
    \/ PublishCall

SpecPublish == InitPublish /\ [][NextPublish]_vars

(***************************************************************************)
(* SpecConcurrentReserve: order.created handlers, each in the goroutine    *)
(* listenToQueue started for its delivery, reserving the same product.  A  *)
(* handler sends its FindOneAndUpdate to the store; the store applies the  *)
(* commands one document operation at a time, in any order.  inv.handlers  *)
(* is each goroutine's position, inv.stock the collection at the start.    *)
(***************************************************************************)
MaxHandlers == 3     \* order.created handlers running at once (SpecConcurrentReserve)

Handlers == 1..MaxHandlers

\* FindOneAndUpdate(filter, update) as the store runs it for a command that
\* was sent when the collection was seen: filter and update act on the
\* document as it is when the command runs.
FindOneAndUpdate_ChecksWhenSent(prods, seen, productID, quantity, driverErr) ==
    IF driverErr THEN [ok |-> FALSE, err |-> TRUE, products |-> prods]
    ELSE IF productID \in DOMAIN seen /\ seen[productID].quantity >= quantity
    THEN [ok |-> TRUE, err |-> FALSE,
          products |-> [prods EXCEPT ![productID] =
                          [quantity |-> @.quantity - quantity,
                           reserved |-> @.reserved + quantity]]]
    ELSE [ok |-> FALSE, err |-> FALSE, products |-> prods]

FindOneAndUpdate(prods, seen, productID, quantity, driverErr) ==
    CheckAndReserveProduct(prods, productID, quantity, driverErr)

InitConcurrentReserve ==
    /\ SagaIdle /\ ListenerIdle /\ ValidateIdle
    /\ products \in [{"p1"} -> [quantity : 0..(MaxQty + 1), reserved : {0}]]
    /\ inv = [handlers |-> [h \in Handlers |-> [pc |-> "idle"]], stock |-> products]

\* go func() { handler.Handle(ctx, msg.Body) ... }: the handler decodes its
\* order.created message and sends the reserve command.
HandlerCallsReserve(h) ==
    /\ inv.handlers[h].pc = "idle"
    /\ \E n \in 1..MaxQty :
          inv' = [inv EXCEPT !.handlers[h] =
                     [pc |-> "sent", p |-> "p1", n |-> n, seen |-> products]]
    /\ UNCHANGED <<sagaVars, products, listenerVars, val>>

\* The store runs the command of handler h; the handler has its answer.
StoreAppliesReserve(h) ==
    /\ inv.handlers[h].pc = "sent"
    /\ \E driverErr \in BOOLEAN :
          LET c == inv.handlers[h]
              r == FindOneAndUpdate(products, c.seen, c.p, c.n, driverErr)
          IN /\ products' = r.products
             /\ inv' = [inv EXCEPT !.handlers[h] =
                           [pc |-> "returned", p |-> c.p, n |-> c.n, seen |-> c.seen,
                            ok |-> r.ok, err |-> r.err, before |-> products]]
    /\ UNCHANGED <<sagaVars, listenerVars, val>>

NextConcurrentReserve ==
    \/ \E h \in Handlers : HandlerCallsReserve(h)
    \/ \E h \in Handlers : StoreAppliesReserve(h)

SpecConcurrentReserve == InitConcurrentReserve /\ [][NextConcurrentReserve]_vars

(***************************************************************************)
(* SpecReplay: the event store under dead-letter capture and concurrent    *)
(* ReplayFailedEvents calls.  POST /replay-failed-events runs each call in *)
(* the goroutine of its request, with no lock between calls, so here the   *)
(* store and broker calls of two runs interleave one by one (Spec runs a   *)
(* replay to completion instead).  In this specification replay holds      *)
(* runs[run], the position and locals of each call, and building, the      *)
(* documents StoreEventForReplay has built and not yet inserted.           *)
(***************************************************************************)
MaxStored == 2       \* StoreEventForReplay calls (SpecReplay)
MaxRuns == 2         \* ReplayFailedEvents calls (SpecReplay)

Runs == 1..MaxRuns

\* What dead-letter capture stores here: a refused order.created message.
CapturedBody ==
    MarshalOrderEvent("o1", [id |-> "p1", name |-> "Laptop", quantity |-> 2], 1, "Processing")

InitReplay ==
    /\ ListenerIdle /\ InventoryIdle /\ ValidateIdle
    /\ products = SeededProducts
    /\ queues = [q \in boundQueues |-> <<>>]
    /\ orders = <<>>
    /\ order_events = <<>>
    /\ now = 0
    /\ used = [creates |-> 0, foreign |-> 0, faults |-> 0, replays |-> 0]
    /\ last = NoStep
    /\ replay = [runs |-> [run \in Runs |-> [pc |-> "idle"]], building |-> <<>>, built |-> 0]

\* StoreEventForReplay up to InsertOne: the document is built, CreatedAt
\* read from the clock.  The clock may not have moved since the last read.
StoreEventBuild ==
    /\ replay.built < MaxStored
    /\ \E tick \in {0, 1} :
          \E s \in {StoreEventForReplay([events |-> <<>>, now |-> now], "o1",
                                        CapturedBody, tick, TRUE)} :
          /\ replay' = [replay EXCEPT !.building = Append(@, s.events[1]),
                                      !.built = @ + 1]
          /\ now' = s.now
    /\ UNCHANGED <<queues, orders, products, order_events, used, last, listenerVars, inv, val>>

\* InsertOne of a built document: calls made by different handler
\* goroutines reach the store in any order.
StoreEventInsert ==
    /\ \E i \in 1..Len(replay.building) :
          /\ order_events' = Append(order_events,
                                [replay.building[i] EXCEPT !.ID = Len(order_events) + 1])
          /\ replay' = [replay EXCEPT !.building = Remove(@, i)]
    /\ UNCHANGED <<queues, orders, products, now, used, last, listenerVars, inv, val>>

\* ReplayFailedEvents up to the loop: fetch the batch; return at once on an
\* error or an empty batch.  Besides the locals of the call, a run keeps
\* what the properties need of its past: done, the ids it has republished in
\* order; exhausted, the batch positions whose publishes all failed; lost,
\* how many of its status updates failed.
RunFetch(run) ==
    /\ replay.runs[run].pc = "idle"
    /\ \A earlier \in 1..(run - 1) : replay.runs[earlier].pc # "idle"  \* calls are numbered as they start
    /\ \E findOk \in BOOLEAN :
          \E g \in {GetUnreplayedEvents(order_events, batchSize, findOk)} :
          replay' = [replay EXCEPT !.runs[run] =
                        IF g.err \/ g.events = <<>>
                        THEN [pc |-> "returned", err |-> g.err, events |-> <<>>,
                              successCount |-> 0, failureCount |-> 0, done |-> <<>>,
                              exhausted |-> {}, lost |-> 0]
                        ELSE [pc |-> "mark", events |-> g.events, next |-> 1,
                              successCount |-> 0, failureCount |-> 0,
                              pubs |-> <<>>, done |-> <<>>,
                              exhausted |-> {}, lost |-> 0]]
    /\ UNCHANGED <<queues, orders, products, order_events, now, used, last,
                   listenerVars, inv, val>>

\* MarkEventAsReplaying(evt.ID); an error is logged and the loop goes on.
RunMark(run) ==
    /\ replay.runs[run].pc = "mark"
    /\ \E markOk \in BOOLEAN :
          /\ order_events' = MarkEventAsReplaying(order_events,
                                 replay.runs[run].events[replay.runs[run].next].ID, markOk)
          /\ replay' = [replay EXCEPT !.runs[run].pc = "publish",
                                      !.runs[run].lost = IF markOk THEN @ ELSE @ + 1]
    /\ UNCHANGED <<queues, orders, products, now, used, last, listenerVars, inv, val>>

\* The retry loop: up to 3 Publish calls under "order.created".
RunPublish(run) ==
    /\ replay.runs[run].pc = "publish"
    /\ \E send \in SendOutcomes(3) :
          \E p \in {publishWithRetry([qs |-> queues, pubs |-> <<>>, err |-> FALSE],
                                     "order.created",
                                     replay.runs[run].events[replay.runs[run].next].EventData,
                                     "replay", send, 1, 3)} :
          /\ queues' = p.qs
          /\ replay' = [replay EXCEPT
                          !.runs[run].pc = "end",
                          !.runs[run].pubs = p.pubs,
                          !.runs[run].exhausted =
                              IF p.err THEN @ \cup {replay.runs[run].next} ELSE @,
                          !.runs[run].done =
                              Append(@, replay.runs[run].events[replay.runs[run].next].ID)]
    /\ UNCHANGED <<orders, products, order_events, now, used, last, listenerVars, inv, val>>

\* if pubErr == nil { MarkEventAsCompleted; successCount++ unless it failed }
\* else { MarkEventAsFailed; failureCount++ }, then the next event.
RunEnd(run) ==
    /\ replay.runs[run].pc = "end"
    /\ \E endOk \in BOOLEAN :
          LET r == replay.runs[run]
              evt == r.events[r.next]
              pubErr == r.pubs[Len(r.pubs)].err
              c == MarkEventAsCompleted([events |-> order_events, now |-> now],
                                        evt.ID, 1, endOk)
          IN
          /\ order_events' = IF pubErr THEN MarkEventAsFailed(order_events, evt.ID, endOk)
                             ELSE c.events
          /\ now' = IF pubErr THEN now ELSE c.now
          /\ replay' = [replay EXCEPT
                          !.runs[run].pc = IF r.next = Len(r.events) THEN "return" ELSE "mark",
                          !.runs[run].next = @ + 1,
                          !.runs[run].successCount = IF ~pubErr /\ endOk THEN @ + 1 ELSE @,
                          !.runs[run].failureCount = IF pubErr THEN @ + 1 ELSE @,
                          !.runs[run].lost = IF endOk THEN @ ELSE @ + 1]
    /\ UNCHANGED <<queues, orders, products, used, last, listenerVars, inv, val>>

\* if failureCount > 0 { return fmt.Errorf("replay completed with %d failures out of %d events", ...) }
replayError_Never(failureCount) == FALSE

replayError(failureCount) == failureCount > 0

\* After the loop: an error iff failureCount > 0.
RunReturn(run) ==
    /\ replay.runs[run].pc = "return"
    /\ replay' = [replay EXCEPT !.runs[run] =
                    [pc |-> "returned", err |-> replayError(@.failureCount),
                     events |-> @.events,
                     successCount |-> @.successCount, failureCount |-> @.failureCount,
                     done |-> @.done, exhausted |-> @.exhausted, lost |-> @.lost]]
    /\ UNCHANGED <<queues, orders, products, order_events, now, used, last,
                   listenerVars, inv, val>>

NextReplay ==
    \/ StoreEventBuild
    \/ StoreEventInsert
    \/ \E run \in Runs : RunFetch(run)
    \/ \E run \in Runs : RunMark(run)
    \/ \E run \in Runs : RunPublish(run)
    \/ \E run \in Runs : RunEnd(run)
    \/ \E run \in Runs : RunReturn(run)

SpecReplay == InitReplay /\ [][NextReplay]_vars

(***************************************************************************)
(* Envelope validation: what Validate decides (SpecValidate).              *)
(***************************************************************************)
\* The identifying fields each envelope type requires, and the quantity rule
\* of the one type that has it.
RequiredFieldsPresent(kind, e) ==
    CASE kind = OrderRequested -> e.ID # "" /\ e.Product.id # "" /\ e.Product.quantity > 0
      [] kind = OrderCreated -> e.ID # "" /\ e.Product.id # "" /\ e.Status # ""
      [] kind = OrderCancelled -> e.OrderID # "" /\ e.Status # ""
      [] kind = InventoryStatusUpdated -> e.OrderID # "" /\ e.ProductID # ""
      [] kind = NotificationSent -> e.OrderID # "" /\ e.Message # ""

\* The rule as the specification words it: identifying fields non-empty and
\* every quantity and amount the envelope carries strictly positive.
IdentifiedAndPositive(kind, e) ==
    CASE kind \in {OrderRequested, OrderCreated} ->
            e.ID # "" /\ e.Product.id # "" /\ e.Product.quantity > 0 /\ e.Amount > 0
      [] kind = OrderCancelled -> e.OrderID # ""
      [] kind = InventoryStatusUpdated -> e.OrderID # "" /\ e.ProductID # ""
      [] kind = NotificationSent -> e.OrderID # ""

C9_ReserveThenReleaseRestores ==
    (/\ Len(inv.hist) = 2
     /\ inv.hist[1].op = "reserve" /\ inv.hist[1].ok
     /\ inv.hist[2].op = "release" /\ ~inv.hist[2].err
     /\ inv.hist[2].p = inv.hist[1].p /\ inv.hist[2].n = inv.hist[1].n)
    => /\ products[inv.hist[1].p] = inv.hist[1].before[inv.hist[1].p]
       /\ products = inv.hist[1].before

\* C9 witness: a reserve of a positive quantity followed by its release.
C9_Witness_ReservedThenReleased ==
    /\ Len(inv.hist) = 2
    /\ inv.hist[1].op = "reserve" /\ inv.hist[1].ok /\ inv.hist[1].n > 0
    /\ inv.hist[2].op = "release" /\ ~inv.hist[2].err
    /\ inv.hist[2].p = inv.hist[1].p /\ inv.hist[2].n = inv.hist[1].n
    /\ inv.hist[1].after # inv.hist[1].before

\* C10: a reserve whose store call completes returns false without an error
\* and changes no product when n exceeds the available quantity of p or p is
\* unknown; when it returns true, quantity of p went down by exactly n,
\* reserved of p went up by exactly n and no other product changed.
C10_ReserveFailsClosedOrMovesExactlyN ==
    \A i \in 1..Len(inv.hist) :
        LET c == inv.hist[i] IN
        (c.op = "reserve" /\ ~c.driverErr) =>
            /\ (c.p \notin DOMAIN c.before \/ c.n > c.before[c.p].quantity)
                  => (~c.ok /\ ~c.err /\ c.after = c.before)
            /\ c.ok =>
                  /\ c.p \in DOMAIN c.before
                  /\ c.after[c.p].quantity = c.before[c.p].quantity - c.n
                  /\ c.after[c.p].reserved = c.before[c.p].reserved + c.n
                  /\ \A o \in DOMAIN c.before \ {c.p} : c.after[o] = c.before[o]

\* C10 witness: a reserve refused for lack of stock, after one that succeeded.
C10_Witness_RefusedAfterSuccess ==
    /\ Len(inv.hist) = 2
    /\ inv.hist[1].op = "reserve" /\ inv.hist[1].ok /\ inv.hist[1].n > 0
    /\ inv.hist[2].op = "reserve" /\ ~inv.hist[2].driverErr
    /\ inv.hist[2].p = inv.hist[1].p
    /\ inv.hist[2].n > inv.hist[2].before[inv.hist[2].p].quantity
    /\ ~inv.hist[2].ok

(***************************************************************************)
(* The saga (Spec).  last describes the step just taken; a formula about   *)
(* what one step does compares the state before it with the state after.   *)
(***************************************************************************)
\* The order id a dead-letter consumer can read from a payload it decoded.
DecodedOrderID(q, body) ==
    IF q = DlqName(OrderCreated) THEN Unmarshal(q, body).ID ELSE Unmarshal(q, body).OrderID

\* C2 (as stated): every message consumed from a dead-letter queue, malformed
\* or not, leaves (when no store call fails) exactly one new event-store
\* record with the raw bytes, status failed, and the order id read from the
\* payload when it decodes and "unknown" otherwise.
C2_Stated_EveryDeadLetterIsStored ==
    [][(last'.op = "handle" /\ last'.queue \in dlqQueues /\ last'.faults = 0)
       => /\ Len(order_events') = Len(order_events) + 1
          /\ SubSeq(order_events', 1, Len(order_events)) = order_events
          /\ order_events'[Len(order_events')].EventData = last'.body
          /\ order_events'[Len(order_events')].Status = EventStatusFailed
          /\ order_events'[Len(order_events')].OrderID =
                IF Unmarshal(last'.queue, last'.body).err THEN "unknown"
                ELSE DecodedOrderID(last'.queue, last'.body)]_vars

\* C2 witness: bytes that are not JSON were consumed from a dead-letter
\* queue, no store call failed, and the event store holds nothing.
C2_Witness_NonJSONDeadLetterDropped ==
    /\ last.op = "handle" /\ last.queue \in dlqQueues
    /\ last.body = InvalidJSON
    /\ last.faults = 0
    /\ order_events = <<>>

\* C3 (as stated): each of the five saga handlers, given a payload that does
\* not deserialize, publishes the raw bytes to <type>.dlq and does nothing
\* else: no order, product or event-store change and no other publish.
C3_Stated_UndecodableIsDeadLettered ==
    [][(/\ last'.op = "handle"
        /\ last'.queue \in eventQueues
        /\ Unmarshal(last'.queue, last'.body).err)
       => /\ Len(last'.pubs) = 1
          /\ last'.pubs[1].topic = DlqName(last'.queue)
          /\ last'.pubs[1].body = last'.body
          /\ orders' = orders /\ products' = products /\ order_events' = order_events]_vars

\* C3 witness: the order.requested handler was given undecodable bytes,
\* published nothing, and no dead-letter queue holds anything.
C3_Witness_UndecodableRequestDropped ==
    /\ last.op = "handle" /\ last.queue = OrderRequested
    /\ Unmarshal(OrderRequested, last.body).err
    /\ last.pubs = <<>>
    /\ \A q \in eventQueues : queues[DlqName(q)] = <<>>

\* C4 (as stated, and only for payloads that decode): every message a
\* publisher of this program put on one of the five event queues passes the
\* Validate of the queue's event type.
C4_Stated_QueuedEnvelopesValidate ==
    \A q \in eventQueues : \A i \in 1..Len(queues[q]) :
        (queues[q][i].by # "foreign" /\ ~Unmarshal(q, queues[q][i].body).err)
            => Validate(q, Unmarshal(q, queues[q][i].body))

\* C4 witness: the replay coordinator put on order.created a payload that is
\* an inventory.status.updated envelope.
C4_Witness_ReplayedUnderWrongKey ==
    \E i \in 1..Len(queues[OrderCreated]) :
        /\ queues[OrderCreated][i].by = "replay"
        /\ queues[OrderCreated][i].body.enc = "object"
        /\ "hasStock" \in DOMAIN queues[OrderCreated][i].body.doc

\* The publish attempts of the step just taken that the broker accepted.
Accepted(pubs) == {i \in 1..Len(pubs) : ~pubs[i].err}

\* C6: handling a valid order.requested message, with the order insert
\* succeeding and some publish attempt succeeding (no attempt is made unless
\* the insert succeeded), appends the order record with status Processing and
\* puts exactly one order.created on the broker, with the id, product (id,
\* name, quantity) and amount of the request.
C6_ValidRequestCreatesOrderAndPublishesOnce ==
    [][(/\ last'.op = "handle" /\ last'.queue = OrderRequested
        /\ ~UnmarshalOrderEvent(last'.body).err
        /\ ValidateOrderRequested(UnmarshalOrderEvent(last'.body))
        /\ Accepted(last'.pubs) # {})
       => LET req == UnmarshalOrderEvent(last'.body) IN
          /\ Len(orders') = Len(orders) + 1
          /\ SubSeq(orders', 1, Len(orders)) = orders
          /\ orders'[Len(orders')].id = req.ID
          /\ orders'[Len(orders')].status = "Processing"
          /\ orders'[Len(orders')].product = req.Product
          /\ orders'[Len(orders')].amount = req.Amount
          /\ Cardinality(Accepted(last'.pubs)) = 1
          /\ \A i \in 1..Len(last'.pubs) :
                /\ last'.pubs[i].topic = OrderCreated
                /\ UnmarshalOrderEvent(last'.pubs[i].body).ID = req.ID
                /\ UnmarshalOrderEvent(last'.pubs[i].body).Product = req.Product
                /\ UnmarshalOrderEvent(last'.pubs[i].body).Amount = req.Amount
          /\ Len(queues'[OrderCreated]) = Len(queues[OrderCreated]) + 1
          /\ \A q \in boundQueues \ {OrderCreated, OrderRequested} : queues'[q] = queues[q]]_vars

\* C6 witness: a valid request was handled, the first publish attempt failed
\* and the second was accepted.
C6_Witness_PublishedOnSecondAttempt ==
    /\ last.op = "handle" /\ last.queue = OrderRequested
    /\ Len(last.pubs) = 2 /\ last.pubs[1].err /\ ~last.pubs[2].err
    /\ \E i \in 1..Len(orders) : orders[i].status = "Processing"
    /\ Len(queues[OrderCreated]) = 1

\* What the order.created handler is asked to reserve, and whether the
\* products collection has it.
InStock(prods, product) ==
    product.id \in DOMAIN prods /\ prods[product.id].quantity >= product.quantity

Reserved(prods, product) ==
    [prods EXCEPT ![product.id] = [quantity |-> @.quantity - product.quantity,
                                   reserved |-> @.reserved + product.quantity]]

\* The order documents with the first one of this id set to Confirmed.
Confirmed(docs, id) ==
    [i \in DOMAIN docs |->
        IF docs[i].id = id /\ \A j \in 1..(i - 1) : docs[j].id # id
        THEN [docs[i] EXCEPT !.status = "Confirmed"] ELSE docs[i]]

IsStatusUpdate(pub, orderID, hasStock) ==
    /\ pub.topic = InventoryStatusUpdated
    /\ UnmarshalInventoryStatusUpdated(pub.body).OrderID = orderID
    /\ UnmarshalInventoryStatusUpdated(pub.body).HasStock = hasStock

IsCancellation(pub, orderID) ==
    /\ pub.topic = OrderCancelled
    /\ UnmarshalOrderCancelled(pub.body).OrderID = orderID

IsNotification(pub, orderID) ==
    /\ pub.topic = NotificationSent
    /\ UnmarshalNotificationSent(pub.body).OrderID = orderID

\* C8: handling a decodable inventory.status.updated for order o.  With
\* hasStock=false the first publish is order.cancelled for o; if the broker
\* accepts it the next is notification.sent for o; if it does not, no
\* notification.sent is attempted and the original message is published to
\* inventory.status.updated.dlq.  No notification.sent is published unless an
\* order.cancelled was accepted before it.  With hasStock=true the first
\* publish is notification.sent for o and no order.cancelled is published.
\* In both cases a refused notification.sent is followed by the original
\* message to the dead-letter queue, and nothing else is published.
C8_CancelledBeforeNotification ==
    (/\ last.op = "handle" /\ last.queue = InventoryStatusUpdated
     /\ ~UnmarshalInventoryStatusUpdated(last.body).err)
    => LET event == UnmarshalInventoryStatusUpdated(last.body)
           pubs == last.pubs
           n == IF event.HasStock THEN 1 ELSE 2
           deadLettered(i) ==
               /\ Len(pubs) = i
               /\ pubs[i].topic = DlqName(InventoryStatusUpdated)
               /\ pubs[i].body = last.body
       IN
       /\ Len(pubs) >= 1
       /\ ~event.HasStock =>
             /\ IsCancellation(pubs[1], event.OrderID)
             /\ pubs[1].err => deadLettered(2)
             /\ \A i \in 1..Len(pubs) :
                   pubs[i].topic = NotificationSent
                      => \E j \in 1..(i - 1) : IsCancellation(pubs[j], event.OrderID) /\ ~pubs[j].err
       /\ event.HasStock => \A i \in 1..Len(pubs) : pubs[i].topic # OrderCancelled
       /\ (event.HasStock \/ ~pubs[1].err) =>
             /\ Len(pubs) >= n
             /\ IsNotification(pubs[n], event.OrderID)
             /\ IF pubs[n].err THEN deadLettered(n + 1) ELSE Len(pubs) = n
       /\ \A i \in Accepted(pubs) :
             \E k \in 1..Len(queues[pubs[i].topic]) : queues[pubs[i].topic][k].body = pubs[i].body

\* C8 witness: hasStock=false was handled and the broker accepted first the
\* order.cancelled and then the notification.sent.
C8_Witness_CancelledThenNotified ==
    /\ last.op = "handle" /\ last.queue = InventoryStatusUpdated
    /\ ~UnmarshalInventoryStatusUpdated(last.body).err
    /\ ~UnmarshalInventoryStatusUpdated(last.body).HasStock
    /\ UnmarshalInventoryStatusUpdated(last.body).OrderID # ""
    /\ Len(last.pubs) = 2 /\ Accepted(last.pubs) = {1, 2}
    /\ last.pubs[1].topic = OrderCancelled
    /\ last.pubs[2].topic = NotificationSent
    /\ Len(queues[OrderCancelled]) = 1 /\ Len(queues[NotificationSent]) = 1

(***************************************************************************)
(* The consumer loop (SpecListener).                                       *)
(***************************************************************************)
\* C1 (as stated): when the delivery channel a loop consumes from is closed
\* and no shutdown has been signalled, the step the loop takes leaves the
\* message loop for a new attempt to consume; it does not stay in the
\* message loop reading the closed channel.
C1_Stated_ClosedChannelLeadsToReconnect ==
    [][\A q \in listenQueues :
          (/\ loops[q].pc = "select"
           /\ broker.msgs[q] = "closed"
           /\ ~broker.ctxDone
           /\ loops'[q] # loops[q])
          => loops'[q].pc = "consume"]_vars

\* C1 witness: with the connection still up and no shutdown signalled, a
\* loop has read its closed delivery channel more than once, is still in the
\* message loop and has never made a second attempt to consume.
C1_Witness_SpinsOnClosedChannel ==
    \E q \in listenQueues :
        /\ loops[q].pc = "select"
        /\ loops[q].closedReads = MaxClosedReads
        /\ loops[q].attempt = 1
        /\ broker.msgs[q] = "closed"
        /\ broker.up
        /\ ~broker.ctxDone

(***************************************************************************)
(* Inventory: the sign of the available quantity (SpecInventory).          *)
(***************************************************************************)
\* C11 (as stated): after any sequence of reserve and release calls, with any
\* product id and any integer amount, the available quantity of every
\* product is >= 0.
C11_Stated_QuantityNeverNegative ==
    \A p \in DOMAIN products : products[p].quantity >= 0

\* C11 witness: a release with a negative amount completed on a product whose
\* quantity was not negative, and the quantity is negative after it.
C11_Witness_NegativeReleaseUnderflows ==
    /\ inv.hist # <<>>
    /\ LET call == inv.hist[Len(inv.hist)] IN
       /\ call.op = "release" /\ ~call.err
       /\ call.n < 0
       /\ call.p \in DOMAIN products
       /\ call.before[call.p].quantity >= 0
       /\ products[call.p].quantity < 0

(***************************************************************************)
(* The event store and the replay coordinator (SpecReplay).                *)
(***************************************************************************)
\* The stored record with this id.
EventByID(events, id) ==
    events[CHOOSE i \in DOMAIN events : events[i].ID = id]

\* C12 (as stated): when a ReplayFailedEvents call returns, every record it
\* fetched has status completed or failed, whatever the publishes and the
\* status updates did.
C12_Stated_FetchedEndCompletedOrFailed ==
    [][\A run \in Runs :
          (replay.runs[run].pc = "return" /\ replay'.runs[run].pc = "returned")
          => \A i \in 1..Len(replay.runs[run].events) :
                EventByID(order_events', replay.runs[run].events[i].ID).Status
                    \in {EventStatusCompleted, EventStatusFailed}]_vars

\* C12 witness: the only call made has returned, without an error, and the
\* one record it fetched and republished is left in status replaying.
C12_Witness_LeftReplayingAfterReturn ==
    /\ replay.runs[1].pc = "returned" /\ replay.runs[2].pc = "idle"
    /\ ~replay.runs[1].err
    /\ Len(replay.runs[1].events) = 1
    /\ Len(queues[OrderCreated]) = 1
    /\ EventByID(order_events, replay.runs[1].events[1].ID).Status = EventStatusReplaying

\* The limits GetUnreplayedEvents is examined with, besides batchSize: small
\* enough that more records are eligible than the limit admits.
FetchLimits == 0..MaxStored

Eligible(events) == {i \in DOMAIN events : Unreplayed(events[i])}

Oldest(a, b) == IF a < b THEN a ELSE b

\* GetUnreplayedEvents(limit) on this collection returns only pending or
\* failed records, each once, oldest first, as many as the limit admits, and
\* no record left out is older than one returned.
FetchesOldestFirst(events, limit) ==
    LET got == GetUnreplayedEvents(events, limit, TRUE).events IN
    /\ Len(got) = Oldest(limit, Cardinality(Eligible(events)))
    /\ \A k \in 1..Len(got) :
          /\ got[k].Status \in {EventStatusPending, EventStatusFailed}
          /\ \E i \in Eligible(events) : events[i] = got[k]
    /\ \A j, k \in 1..Len(got) : j < k =>
          got[j].ID # got[k].ID /\ got[j].CreatedAt <= got[k].CreatedAt
    /\ \A i \in Eligible(events) :
          (\A k \in 1..Len(got) : got[k].ID # events[i].ID)
             => \A k \in 1..Len(got) : got[k].CreatedAt <= events[i].CreatedAt

InProgress(id) ==
    \E run \in Runs :
        /\ replay.runs[run].pc \in {"mark", "publish", "end"}
        /\ \E k \in replay.runs[run].next..Len(replay.runs[run].events) :
              replay.runs[run].events[k].ID = id

\* C14 (as stated): every stored record that is not completed is being
\* processed by a running replay or is one the next fetch would return
\* (pending or failed, not flagged replayed).
C14_Stated_UncompletedIsInProgressOrEligible ==
    \A i \in DOMAIN order_events :
        order_events[i].Status # EventStatusCompleted
            => InProgress(order_events[i].ID) \/ Unreplayed(order_events[i])

\* C14 witness: no call is running, the one stored record is in status
\* replaying after a run that could not publish it, and a fetch made now
\* returns nothing.
C14_Witness_ExhaustedRecordNeverRefetched ==
    /\ replay.runs[1].pc = "returned" /\ replay.runs[1].err
    /\ replay.runs[1].failureCount = 1
    /\ replay.runs[2].pc = "idle"
    /\ Len(order_events) = 1 /\ replay.building = <<>>
    /\ order_events[1].Status = EventStatusReplaying
    /\ GetUnreplayedEvents(order_events, batchSize, TRUE).events = <<>>

\* The lifecycle of a stored record: pending or failed -> replaying ->
\* completed or failed.
LifecycleEdge(from, to) ==
    \/ from \in {EventStatusPending, EventStatusFailed} /\ to = EventStatusReplaying
    \/ from = EventStatusReplaying /\ to \in {EventStatusCompleted, EventStatusFailed}

\* C15 (as stated): under any interleaving of dead-letter capture and
\* ReplayFailedEvents calls, a record is created pending or failed, its
\* status changes only along a lifecycle edge, and a completed record never
\* changes status again.
C15_Stated_StatusFollowsLifecycle ==
    [][/\ \A i \in DOMAIN order_events :
             \/ order_events'[i].Status = order_events[i].Status
             \/ LifecycleEdge(order_events[i].Status, order_events'[i].Status)
       /\ \A i \in DOMAIN order_events' \ DOMAIN order_events :
             order_events'[i].Status \in {EventStatusPending, EventStatusFailed}]_vars

\* C15 witness: two calls fetched the same record; one has republished it
\* and marked it completed, after which the other marked it replaying: the
\* record carries the replayed flag of its completion and status replaying.
C15_Witness_CompletedBackToReplaying ==
    \E i \in DOMAIN order_events :
        /\ order_events[i].Status = EventStatusReplaying
        /\ order_events[i].Replayed
        /\ \A run \in Runs :
              /\ replay.runs[run].pc # "idle"
              /\ \E k \in 1..Len(replay.runs[run].events) :
                    replay.runs[run].events[k].ID = order_events[i].ID

C17_ThreeAttemptsThenCompletedOrFailed ==
    [][\A run \in Runs :
          /\ (replay.runs[run].pc = "publish" /\ replay'.runs[run].pc = "end") =>
                LET pubs == replay'.runs[run].pubs
                    evt == replay.runs[run].events[replay.runs[run].next]
                IN /\ Len(pubs) \in 1..3
                   /\ \A a \in 1..Len(pubs) :
                         /\ pubs[a].topic = OrderCreated /\ pubs[a].body = evt.EventData
                         /\ a < Len(pubs) => pubs[a].err
                   /\ pubs[Len(pubs)].err => Len(pubs) = 3
                   /\ Len(queues'[OrderCreated]) =
                         Len(queues[OrderCreated]) + (IF pubs[Len(pubs)].err THEN 0 ELSE 1)
          /\ (replay.runs[run].pc = "end" /\ replay'.runs[run].pc # "end") =>
                LET r == replay.runs[run]
                    evt == r.events[r.next]
                    succeeded == \E a \in 1..Len(r.pubs) : ~r.pubs[a].err
                    applied == replay'.runs[run].lost = r.lost
                    before == EventByID(order_events, evt.ID)
                    after == EventByID(order_events', evt.ID)
                IN /\ replay'.runs[run].failureCount =
                         r.failureCount + (IF succeeded THEN 0 ELSE 1)
                   /\ (applied /\ succeeded) =>
                         /\ after.Status = EventStatusCompleted
                         /\ after.Replayed
                         /\ after.ReplayedAt = now' /\ now' > now
                   /\ (applied /\ ~succeeded) =>
                         after = [before EXCEPT !.Status = EventStatusFailed]
                   /\ ~applied => after = before
                   /\ \A i \in DOMAIN order_events :
                         order_events[i].ID # evt.ID => order_events'[i] = order_events[i]]_vars

\* C17 witness: a record was republished on the third attempt and is
\* completed, flagged replayed, with a replay timestamp after its creation.
C17_Witness_CompletedOnThirdAttempt ==
    /\ replay.runs[1].pc = "return"
    /\ Len(replay.runs[1].events) = 1
    /\ Len(replay.runs[1].pubs) = 3
    /\ replay.runs[1].pubs[2].err /\ ~replay.runs[1].pubs[3].err
    /\ replay.runs[2].pc = "idle"
    /\ LET e == EventByID(order_events, replay.runs[1].events[1].ID) IN
       /\ e.Status = EventStatusCompleted /\ e.Replayed
       /\ e.ReplayedAt > e.CreatedAt
    /\ Len(queues[OrderCreated]) = 1

(***************************************************************************)
(* Cancellation of an order the store does not hold                        *)
(***************************************************************************)
\* The handled order.cancelled payload decodes and names no stored order.
CancelsUnknownOrder(step, docs) ==
    /\ step.op = "handle"
    /\ step.queue = OrderCancelled
    /\ ~UnmarshalOrderCancelled(step.body).err
    /\ FirstMatch(docs, UnmarshalOrderCancelled(step.body).OrderID) = 0

\* C18 (as stated): when the order.cancelled handler receives an event whose
\* order id matches no stored order, it logs and stops: it publishes nothing
\* (in particular nothing to order.cancelled.dlq), releases no inventory and
\* changes no order status.
C18_Stated_UnknownOrderLogsAndStops ==
    [][CancelsUnknownOrder(last', orders)
       => /\ last'.pubs = <<>>
          /\ queues'[DlqName(OrderCancelled)] = queues[DlqName(OrderCancelled)]
          /\ products' = products
          /\ orders' = orders]_vars

\* C18 witness: with every store and broker call of the step succeeding, the
\* handler found no order for the event's id and published the event to
\* order.cancelled.dlq, where it now waits.
C18_Witness_UnknownOrderDeadLettered ==
    /\ CancelsUnknownOrder(last, orders)
    /\ last.faults = 0
    /\ last.log = "Failed to get order for cancellation"
    /\ last.pubs = <<[topic |-> DlqName(OrderCancelled), body |-> last.body, err |-> FALSE]>>
    /\ \E i \in 1..Len(queues[DlqName(OrderCancelled)]) :
          queues[DlqName(OrderCancelled)][i].body = last.body

(***************************************************************************)
(* A next event that could not be published                                *)
(***************************************************************************)
\* The step tried to publish to topic and no attempt went through.
NextPublishFailed(step, topic) ==
    /\ step.op = "handle"
    /\ step.queue \in eventQueues
    /\ topic \in eventQueues
    /\ \E i \in 1..Len(step.pubs) : step.pubs[i].topic = topic
    /\ \A i \in 1..Len(step.pubs) : step.pubs[i].topic = topic => step.pubs[i].err

\* The payload the step tried to publish to topic.
FailedPayload(step, topic) ==
    step.pubs[CHOOSE i \in 1..Len(step.pubs) : step.pubs[i].topic = topic].body

\* C19 (as stated): for every saga step that publishes a next event, when the
\* publication of the next event fails (after the step's own retries, if any)
\* the constructed next-event payload is persisted in the event store for
\* later replay and a message is also routed to the step's dead-letter queue;
\* a failed downstream publish is never only logged.
C19_Stated_FailedPublishStoredAndDeadLettered ==
    [][\A topic \in eventQueues :
          NextPublishFailed(last', topic)
          => /\ \E i \in (Len(order_events) + 1)..Len(order_events') :
                   order_events'[i].EventData = FailedPayload(last', topic)
             /\ \E j \in 1..Len(last'.pubs) :
                   last'.pubs[j].topic = DlqName(last'.queue)]_vars

\* C19 witness: the order.created handler reserved the stock and confirmed
\* the order, its one publish of inventory.status.updated failed, and the
\* step ended there: the event store is empty and no dead-letter queue holds
\* anything.
C19_Witness_FailedPublishOnlyLogged ==
    /\ NextPublishFailed(last, InventoryStatusUpdated)
    /\ last.queue = OrderCreated
    /\ last.log = "Order confirmed and inventory reserved"
    /\ Len(last.pubs) = 1
    /\ order_events = <<>>
    /\ \A q \in dlqQueues : queues[q] = <<>>
    /\ \E i \in 1..Len(orders) : orders[i].status = "Confirmed"

(***************************************************************************)
(* Payloads that decode but fail the validation of their event type        *)
(***************************************************************************)
\* The handled payload decodes into the envelope of its queue and the
\* envelope's Validate rejects it.
HandlesInvalidEnvelope(step) ==
    /\ step.op = "handle"
    /\ step.queue \in eventQueues
    /\ ~Unmarshal(step.queue, step.body).err
    /\ ~Validate(step.queue, Unmarshal(step.queue, step.body))

\* C20 (as stated): for every saga handler, a payload that deserializes but
\* fails the validation of its event type causes no domain side effect, no
\* downstream publish and no dead-letter publish: the handler logs and stops
\* and never builds a next event from invalid input.
C20_Stated_InvalidEnvelopeLogsAndStops ==
    [][HandlesInvalidEnvelope(last')
       => /\ last'.pubs = <<>>
          /\ orders' = orders
          /\ products' = products
          /\ order_events' = order_events]_vars

\* C20 witness: the order.created handler was given a payload with no order
\* id and no product, and with every call of the step succeeding it published
\* an inventory.status.updated event for the empty order id and dead-lettered
\* the payload.
C20_Witness_NextEventBuiltFromInvalidInput ==
    /\ HandlesInvalidEnvelope(last)
    /\ last.queue = OrderCreated
    /\ UnmarshalOrderEvent(last.body).ID = ""
    /\ last.faults = 0
    /\ last.pubs = <<[topic |-> InventoryStatusUpdated,
                      body |-> MarshalInventoryStatusUpdated("", "", FALSE),
                      err |-> FALSE],
                     [topic |-> DlqName(OrderCreated), body |-> last.body, err |-> FALSE]>>

(***************************************************************************)
(* Dispatch and acknowledgment of deliveries                               *)
(***************************************************************************)
\* Every message the loop of q took from its delivery channel has one
\* handler goroutine, and no goroutine is past Handle without Handle having
\* returned, or finished without having called Ack.
DispatchedOnceAckAfterHandle(q) ==
    /\ Len(loops[q].handlers) = loops[q].dispatched
    /\ broker.waiting[q] + loops[q].dispatched = broker.arrived[q]
    /\ \A i \in 1..Len(loops[q].handlers) :
          LET g == loops[q].handlers[i] IN
          /\ g.pc = "handle" => g.handled = "none" /\ g.ack = "none"
          /\ g.pc = "ack" => g.handled # "none" /\ g.ack = "none"
          /\ g.pc = "done" => g.handled # "none" /\ g.ack \in {"acked", "error"}

\* C21 (amended): every message a consumer loop takes is handed exactly once
\* to the handler of its queue; when the handler has returned, however it
\* ended, Ack is called exactly once and nothing is ever rejected; the
\* acknowledgment goes through iff the connection is still open at that
\* moment, and otherwise fails without a trace.  Every taken message
\* eventually has its Ack called.
C21_DispatchedOnceAckCalledAfterHandle ==
    /\ [](\A q \in listenQueues : DispatchedOnceAckAfterHandle(q))
    /\ [][\A q \in listenQueues : \A i \in 1..Len(loops[q].handlers) :
             loops'[q].handlers[i].ack # loops[q].handlers[i].ack
             => /\ loops[q].handlers[i].pc = "ack"
                /\ loops'[q].handlers[i].pc = "done"
                /\ loops'[q].handlers[i].handled = loops[q].handlers[i].handled
                /\ loops'[q].handlers[i].ack = (IF broker.up THEN "acked" ELSE "error")]_vars
    /\ \A q \in listenQueues : \A i \in 1..MaxArrivals :
          (loops[q].dispatched >= i)
             ~> (Len(loops[q].handlers) >= i /\ loops[q].handlers[i].pc = "done")

\* C21 witness: a handler ended in one of its error branches and its message
\* was acknowledged all the same.
C21_Witness_AckedAfterFailedHandler ==
    \E q \in listenQueues : \E i \in 1..Len(loops[q].handlers) :
        /\ loops[q].handlers[i].handled = "failed"
        /\ loops[q].handlers[i].ack = "acked"

\* C21 (as stated): every delivered message is dispatched once and
\* acknowledged once after its handler returned, whether or not the handler
\* succeeded; none is left unacknowledged while the process keeps running.
C21_Stated_EveryHandledMessageAcknowledged ==
    \A q \in listenQueues : \A i \in 1..Len(loops[q].handlers) :
        loops[q].handlers[i].pc = "done" => loops[q].handlers[i].ack = "acked"

(***************************************************************************)
(* The saga of one order                                                   *)
(***************************************************************************)
OrderIDs == {"o" \o ToString(k) : k \in 1..MaxCreates}

\* The event in body carries order id id (key "id" of the order envelopes,
\* "orderId" of the others).
About(body, id) ==
    /\ body.enc = "object"
    /\ id \in {Get(body.doc, "id", ""), Get(body.doc, "orderId", "")}

\* The step published, on topic, an event about order id.
Published(step, topic, id) ==
    \E i \in 1..Len(step.pubs) :
        /\ step.pubs[i].topic = topic
        /\ ~step.pubs[i].err
        /\ About(step.pubs[i].body, id)

\* CreateOrder has just accepted order id and published order.requested.
Requested(id) ==
    /\ last.op = "CreateOrder"
    /\ Published(last, OrderRequested, id)

\* The order.created handler has just found too little stock for order id.
Refused(id) ==
    /\ last.op = "handle"
    /\ last.queue = OrderCreated
    /\ About(last.body, id)
    /\ last.log = "Product not found or not enough quantity"

HasOrder(id, status, notificationStatus) ==
    \E i \in 1..Len(orders) :
        /\ orders[i].id = id
        /\ orders[i].status = status
        /\ orders[i].notificationStatus = notificationStatus

\* A handler publishes the event of topic about order id only while handling
\* the event of queue from about the same order.
PublishedOnlyFrom(step, topic, id, from) ==
    (step.op = "handle" /\ Published(step, topic, id))
    => (step.queue = from /\ About(step.body, id))

\* C22: for a valid order with sufficient stock and no broker or store
\* failure, under fair scheduling the events are published in the order
\* order.requested, order.created, inventory.status.updated(hasStock=true),
\* notification.sent, and the order eventually has status Confirmed with
\* notification status "sent"; no order.cancelled is published for it.
C22_HappyPathEndsConfirmedAndNotified ==
    /\ \A id \in OrderIDs :
          Requested(id)
             ~> (HasOrder(id, "Confirmed", "sent") \/ Refused(id))
    /\ [][\A id \in OrderIDs :
             /\ PublishedOnlyFrom(last', OrderCreated, id, OrderRequested)
             /\ PublishedOnlyFrom(last', InventoryStatusUpdated, id, OrderCreated)
             /\ PublishedOnlyFrom(last', NotificationSent, id, InventoryStatusUpdated)
             /\ PublishedOnlyFrom(last', OrderCancelled, id, InventoryStatusUpdated)
             /\ (last'.op = "handle" /\ Published(last', OrderCancelled, id))
                => ~UnmarshalInventoryStatusUpdated(last'.body).HasStock
             /\ (last'.op = "handle" /\ last'.queue = OrderCreated
                 /\ Published(last', InventoryStatusUpdated, id))
                => (UnmarshalInventoryStatusUpdated(last'.pubs[1].body).HasStock
                    <=> last'.log = "Order confirmed and inventory reserved")]_vars

\* C22 witness: with no failed call and no foreign message an order went the
\* whole way: it is Confirmed and notified, its stock is reserved, every
\* queue is empty again and nothing was stored for replay.
C22_Witness_ConfirmedAndNotified ==
    /\ HasOrder("o1", "Confirmed", "sent")
    /\ used.faults = 0 /\ used.foreign = 0
    /\ products["p1"].reserved = 1
    /\ \A q \in boundQueues : queues[q] = <<>>
    /\ order_events = <<>>

\* Order id has the given status, notified or not.
HasStatus(id, status) == \E n \in {"", "sent"} : HasOrder(id, status, n)

\* C23 (as stated): for a valid order whose product has insufficient stock
\* and with no broker or store failure, under fair scheduling the order
\* eventually reaches status Cancelled, an order.cancelled and a
\* notification.sent event are published for it, and the order never has
\* status Confirmed.
C23_Stated_RefusedOrderEndsCancelledNeverConfirmed ==
    \A id \in OrderIDs :
        /\ Refused(id) ~> HasStatus(id, "Cancelled")
        /\ Refused(id) ~> (last.op = "handle"
                           /\ last.queue = InventoryStatusUpdated
                           /\ Published(last, OrderCancelled, id)
                           /\ Published(last, NotificationSent, id))
        /\ [](Refused(id) => [](~HasStatus(id, "Confirmed")))

\* C23 witness: with no failed call, an order for more than the product ever
\* had in stock was refused and cancelled, the cancellation "released" the
\* quantity that had never been reserved, and the replay of the dead-lettered
\* order.created event then reserved it: the order is Confirmed.
C23_Witness_RefusedOrderConfirmedByReplay ==
    /\ used.faults = 0 /\ used.foreign = 0
    /\ last.op = "handle" /\ last.queue = OrderCreated /\ last.by = "replay"
    /\ last.log = "Order confirmed and inventory reserved"
    /\ \E i \in 1..Len(orders) :
          /\ orders[i].status = "Confirmed"
          /\ orders[i].product.quantity > SeededProducts[orders[i].product.id].quantity
    /\ \E i \in 1..Len(order_events) : order_events[i].Status = EventStatusCompleted

(***************************************************************************)
(* Opening consumption: attempts and backoff                               *)
(***************************************************************************)
RECURSIVE Doubled(_, _)
Doubled(delay, times) == IF times = 0 THEN delay ELSE Doubled(delay * 2, times - 1)

\* The loop of q is in its n-th attempt, n at most 5, and the delay it will
\* sleep after a failure of that attempt is 2, 4, 8, 16 seconds for n = 1..4;
\* it sleeps only after a failure that was not the 5th, and if it returned
\* without the context being cancelled it had failed 5 times.
AttemptsAndBackoff(q) ==
    /\ loops[q].attempt \in 1..maxRetries
    /\ loops[q].retryDelay = Doubled(initialRetryDelay, loops[q].attempt - 1)
    /\ loops[q].pc = "sleep"
       => loops[q].attempt < maxRetries /\ loops[q].retryDelay \in {2, 4, 8, 16}
    /\ (loops[q].pc = "returned" /\ ~broker.ctxDone) => loops[q].attempt = maxRetries

\* The loop goroutine of q: its position and its local variables.
LoopOf(rec) == [pc |-> rec.pc, attempt |-> rec.attempt, retryDelay |-> rec.retryDelay,
                dispatched |-> rec.dispatched, closedReads |-> rec.closedReads]

\* C24: a consumer loop makes at most 5 attempts to open consumption on its
\* queue, waiting 2, 4, 8 and 16 seconds between successive failed attempts;
\* after the 5th failure that queue's listener stops permanently, and the
\* listeners of all other queues keep connecting and consuming unaffected.
C24_FiveAttemptsDoublingBackoff ==
    /\ [](\A q \in listenQueues : AttemptsAndBackoff(q))
    /\ [][\A q \in listenQueues :
             /\ loops[q].pc = "returned" => LoopOf(loops'[q]) = LoopOf(loops[q])
             /\ (loops[q].pc = "consume" /\ loops'[q].pc \in {"sleep", "returned"})
                => /\ loops'[q].pc = "returned" <=> loops[q].attempt = maxRetries
                   /\ \A other \in listenQueues \ {q} : loops'[other] = loops[other]
                   /\ broker' = broker]_vars

\* C24 witness: the loop of one queue has given up after its 5th failed
\* attempt, having doubled its delay to 32, and with the context not
\* cancelled the loop of the other queue is consuming and has dispatched a
\* message.
C24_Witness_OneGaveUpOtherConsumes ==
    \E q \in listenQueues : \E other \in listenQueues \ {q} :
        /\ ~broker.ctxDone /\ broker.up
        /\ loops[q].pc = "returned"
        /\ loops[q].attempt = maxRetries
        /\ loops[q].retryDelay = 32
        /\ loops[other].pc = "select"
        /\ loops[other].dispatched = 1

(***************************************************************************)
(* C25: Publish(topic, body) returns an error and sends nothing when topic *)
(* is empty, body is nil, the connection is closed or the channel is       *)
(* uninitialized; otherwise it makes exactly one send attempt of a         *)
(* persistent message with routing key equal to topic and returns that     *)
(* attempt's outcome, never retrying by itself.                            *)
(***************************************************************************)
\* The services Publish can be called on, the one with no channel included.
Services ==
    {[NewRabbitMQService(x) EXCEPT !.closed = c, !.channel = ch] :
        x \in ExchangeNames, c \in BOOLEAN, ch \in {"open", "closed", "nil"}}

PublishContract(svc, topic, body, r) ==
    IF topic = "" \/ body = NilBody \/ svc.closed \/ svc.channel = "nil"
    THEN r.err # "" /\ r.sends = <<>>
    ELSE /\ Len(r.sends) = 1
         /\ r.sends[1].persistent
         /\ r.sends[1].key = topic
         /\ r.sends[1].body = body
         /\ (r.err # "") <=> r.sends[1].failed

C25_PublishSendsOnceOrRefuses ==
    /\ last.op = "Publish" =>
          PublishContract(last.before, last.queue, last.body,
                          [err |-> last.log, sends |-> last.pubs])
    /\ \A svc \in Services, topic \in Topics, body \in Bodies, sendErr \in BOOLEAN :
          PublishContract(svc, topic, body, RabbitMQ_Publish(svc, topic, body, sendErr))

C25_Witness_FailedSendReturnedNotRetried ==
    /\ last.op = "Publish"
    /\ last.log = "failed to publish message"
    /\ Len(last.pubs) = 1
    /\ last.pubs[1].failed
    /\ last.enq = {}

(***************************************************************************)
(* C26: after a successful startup with any configured exchange name, a    *)
(* message published through Publish under routing key K, for K one of the *)
(* five event types or one of their '<type>.dlq' names, is enqueued in     *)
(* exactly the queue named K and in no other queue.  As stated, for every  *)
(* configured exchange name:                                               *)
(***************************************************************************)
C26_Stated_PublishedMessageEnqueuedInQueueK ==
    (last.op = "Publish" /\ last.log = "" /\ last.queue \in boundQueues)
        => last.enq = {last.queue}

\* Publish returned nil for an event type and the message is in no queue.
C26_Witness_PublishedToUnboundExchange ==
    /\ last.op = "Publish"
    /\ last.log = ""
    /\ last.queue \in boundQueues
    /\ last.before.exchange # PublishExchange
    /\ last.enq = {}
    /\ \A q \in boundQueues : queues[q] = <<>>
    /\ broker.channel = "closed"

PublishOfOrderCreatedGaveUp(rec, data) ==
    /\ rec.op = "handle"
    /\ rec.queue = OrderRequested
    /\ Len(rec.pubs) = 3
    /\ \A i \in 1..3 :
          /\ rec.pubs[i].err
          /\ rec.pubs[i].topic = OrderCreated
          /\ rec.pubs[i].body = data

DLQStep ==
    /\ last'.op = "handle"
    /\ last'.queue \in dlqQueues

C28_DLQHandlingOnlyInsertsOneEvent ==
    [][DLQStep
          => /\ orders' = orders
             /\ products' = products
             /\ last'.pubs = <<>>
             /\ \E i \in 1..Len(queues[last'.queue]) :
                   /\ queues[last'.queue][i].body = last'.body
                   /\ queues' = [queues EXCEPT ![last'.queue] = Remove(@, i)]
             /\ \/ order_events' = order_events
                \/ /\ Len(order_events') = Len(order_events) + 1
                   /\ SubSeq(order_events', 1, Len(order_events)) = order_events
             /\ replay' = replay]_vars

\* C28 witness: a dead-letter consumer has stored the message it consumed
\* while an order and the products exist.
C28_Witness_DLQMessageStoredBesideOrder ==
    /\ last.op = "handle"
    /\ last.queue \in dlqQueues
    /\ last.pubs = <<>>
    /\ Len(orders) = 1
    /\ Len(order_events) >= 1
    /\ order_events[Len(order_events)].EventData = last.body

(***************************************************************************)
(* C29: after the shared cancellation signal is given, every consumer loop *)
(* eventually stops taking messages and returns, and StartListening        *)
(* returns once all loops have returned, without waiting for handler calls *)
(* that are still in flight.  Checked as: cancellation leads to            *)
(* StartListening returning, and a loop that has returned dispatches no    *)
(* further message and never runs again.                                   *)
(***************************************************************************)
C29_CancellationStopsLoopsAndStartListening ==
    /\ broker.ctxDone ~> StartListeningReturned
    /\ [][\A q \in listenQueues :
             loops[q].pc = "returned"
                => /\ loops'[q].pc = "returned"
                   /\ loops'[q].dispatched = loops[q].dispatched
                   /\ Len(loops'[q].handlers) = Len(loops[q].handlers)]_vars

\* C29 witness: the context is cancelled, every loop has returned, so
\* StartListening has returned, and a handler call is still running.
C29_Witness_ReturnedWithHandlerInFlight ==
    /\ broker.ctxDone
    /\ StartListeningReturned
    /\ \E q \in listenQueues : \E i \in 1..Len(loops[q].handlers) :
          loops[q].handlers[i].pc = "handle"

(***************************************************************************)
(* C30: OrderService.CreateOrder returns the order id if and only if the   *)
(* order passed validation (non-empty order id and product id, quantity    *)
(* > 0, amount > 0) and one of at most 2 publish attempts of               *)
(* order.requested succeeded, in which case exactly one order.requested    *)
(* message was published; when it returns an error no message was          *)
(* published; in no case does CreateOrder itself write an order record.    *)
(***************************************************************************)
\* Orders CreateOrder may be called with, the refused ones included.
CreateOrderInputs ==
    [ID : {"", "o1"},
     Product : [id : {"", "p1"}, name : {"Laptop"}, quantity : {-1, 0, 1}],
     Amount : {-1, 0, 1}]

PassesValidation(order) ==
    /\ order.ID # ""
    /\ order.Product.id # ""
    /\ order.Product.quantity > 0
    /\ order.Amount > 0

\* return order.ID, nil
ReturnsOrderID(r) == r.log = "OrderRequested event published successfully"

CreateOrderContract(S, order, send, r) ==
    /\ ReturnsOrderID(r) <=> (PassesValidation(order) /\ \E a \in 1..2 : send[a])
    /\ Len(r.pubs) <= 2
    /\ \A i \in 1..Len(r.pubs) :
          /\ r.pubs[i].topic = OrderRequested
          /\ r.pubs[i].body = MarshalOrderEvent(order.ID, order.Product, order.Amount,
                                                OrderStatusRequested)
    /\ ReturnsOrderID(r)
          => /\ Cardinality({i \in 1..Len(r.pubs) : ~r.pubs[i].err}) = 1
             /\ r.qs = [S.qs EXCEPT ![OrderRequested] =
                           Append(@, [body |-> MarshalOrderEvent(order.ID, order.Product,
                                                                 order.Amount,
                                                                 OrderStatusRequested),
                                      by |-> "CreateOrder"])]
    /\ ~ReturnsOrderID(r)
          => /\ \A i \in 1..Len(r.pubs) : r.pubs[i].err
             /\ r.qs = S.qs
    /\ ~PassesValidation(order) => r.pubs = <<>>
    /\ r.orders = S.orders
    /\ r.products = S.products
    /\ r.events = S.events

\* The queued messages CreateOrder published for the order.
QueuedBy(order) ==
    {qi \in UNION {{<<q, i>> : i \in 1..Len(queues[q])} : q \in boundQueues} :
        /\ queues[qi[1]][qi[2]].by = "CreateOrder"
        /\ queues[qi[1]][qi[2]].body =
              MarshalOrderEvent(order.ID, order.Product, order.Amount, OrderStatusRequested)}

SaysHasStock(body) ==
    /\ body.enc = "object"
    /\ "hasStock" \in DOMAIN body.doc
    /\ UnmarshalInventoryStatusUpdated(body).HasStock

\* The hasStock=true messages on the broker (in any queue) or in the hands
\* of the handler that ran last.
HasStockMessages ==
    {queues[qi[1]][qi[2]].body : qi \in
        {qi \in UNION {{<<q, i>> : i \in 1..Len(queues[q])} : q \in boundQueues} :
            SaysHasStock(queues[qi[1]][qi[2]].body)}}
    \cup (IF last.op = "handle" /\ SaysHasStock(last.body) THEN {last.body} ELSE {})

IsConfirmed(docs, id) ==
    \E i \in 1..Len(docs) : docs[i].id = id /\ docs[i].status = "Confirmed"

C32_Stated_ReleasedOnlyIfReserved ==
    \A p \in DOMAIN products :
        /\ products[p].reserved >= 0
        /\ products[p].quantity <= SeededProducts[p].quantity

\* C32 witness: with no failed call, the order.cancelled handler has
\* cancelled an order that was refused for lack of stock: nothing had been
\* reserved, and the product now has more available than was ever seeded
\* and a negative reserved.
C32_Witness_CancelReleasedUnreservedStock ==
    /\ used.faults = 0 /\ used.foreign = 0
    /\ last.op = "handle" /\ last.queue = OrderCancelled
    /\ last.log = "Order cancelled and inventory released"
    /\ \E i \in 1..Len(orders) :
          /\ orders[i].id = UnmarshalOrderCancelled(last.body).OrderID
          /\ orders[i].status = "Cancelled"
          /\ products[orders[i].product.id].reserved = 0 - orders[i].product.quantity
          /\ products[orders[i].product.id].quantity =
                SeededProducts[orders[i].product.id].quantity + orders[i].product.quantity

(***************************************************************************)
(* C33: when order.created handlers for the same product run concurrently, *)
(* the check of available quantity and its decrement are one atomic step:  *)
(* the total quantity successfully reserved never exceeds the quantity     *)
(* that was available, and two handlers can never both succeed on stock    *)
(* that suffices for only one of them.                                     *)
(***************************************************************************)
\* The handlers whose reserve call returned true.
Succeeded ==
    {h \in Handlers : inv.handlers[h].pc = "returned" /\ inv.handlers[h].ok}

RECURSIVE TotalReserved(_)
TotalReserved(hs) ==
    IF hs = {} THEN 0
    ELSE LET h == CHOOSE x \in hs : TRUE
         IN inv.handlers[h].n + TotalReserved(hs \ {h})

C33_ConcurrentReservesNeverOversell ==
    /\ TotalReserved(Succeeded) <= inv.stock["p1"].quantity
    /\ products["p1"].quantity = inv.stock["p1"].quantity - TotalReserved(Succeeded)
    /\ products["p1"].reserved = TotalReserved(Succeeded)
    /\ products["p1"].quantity >= 0
    /\ \A h1, h2 \in Succeeded :
          h1 # h2 => inv.handlers[h1].n + inv.handlers[h2].n <= inv.stock["p1"].quantity
    /\ \A h \in Handlers :
          inv.handlers[h].pc = "returned"
             => (inv.handlers[h].ok <=>
                    (~inv.handlers[h].err
                     /\ inv.handlers[h].before["p1"].quantity >= inv.handlers[h].n))

\* C33 witness: two handlers had both sent their command while the stock
\* was enough for either and not for both; one got it, the other was
\* refused without an error.
C33_Witness_OneOfTwoRacingHandlersRefused ==
    \E h1, h2 \in Handlers :
        /\ h1 # h2
        /\ inv.handlers[h1].pc = "returned" /\ inv.handlers[h2].pc = "returned"
        /\ inv.handlers[h1].seen = inv.stock /\ inv.handlers[h2].seen = inv.stock
        /\ inv.handlers[h1].n <= inv.stock["p1"].quantity
        /\ inv.handlers[h2].n <= inv.stock["p1"].quantity
        /\ inv.handlers[h1].n + inv.handlers[h2].n > inv.stock["p1"].quantity
        /\ inv.handlers[h1].ok
        /\ ~inv.handlers[h2].ok /\ ~inv.handlers[h2].err

(***************************************************************************)
(* C34: for every product, quantity + reserved is unchanged by every       *)
(* reserve and every release call (successful or not), under any sequence  *)
(* and interleaving of these calls.  Each call is one command of the       *)
(* store, so an interleaving of calls is a sequence of them.               *)
(***************************************************************************)
OnHand(prods, p) == prods[p].quantity + prods[p].reserved

C34_QuantityPlusReservedConserved ==
    \A i \in 1..Len(inv.hist) :
        /\ DOMAIN inv.hist[i].after = DOMAIN inv.hist[i].before
        /\ \A p \in DOMAIN inv.hist[i].before :
              OnHand(inv.hist[i].after, p) = OnHand(inv.hist[i].before, p)

\* C34 witness: a successful reserve and then a release of another amount,
\* both of which moved stock between the two fields.
C34_Witness_ReserveAndUnequalReleaseMovedStock ==
    /\ Len(inv.hist) = 2
    /\ inv.hist[1].op = "reserve" /\ inv.hist[1].ok /\ inv.hist[1].n > 0
    /\ inv.hist[2].op = "release" /\ ~inv.hist[2].err
    /\ inv.hist[2].p = inv.hist[1].p
    /\ inv.hist[2].n > inv.hist[1].n
    /\ inv.hist[2].after # inv.hist[2].before
    /\ products = inv.hist[2].after

(***************************************************************************)
(* C35: Cancelled is a terminal order status: once an order's status has   *)
(* been set to Cancelled, no later event (a concurrently handled           *)
(* order.created, or the replay of that order's dead-lettered              *)
(* order.created message) sets it to Confirmed.  As stated:                *)
(***************************************************************************)
C35_Stated_CancelledIsTerminal ==
    [][\A i \in 1..Len(orders) :
          orders[i].status = "Cancelled" => orders'[i].status # "Confirmed"]_vars

\* C35 witness: an order carries the notification that it was cancelled for
\* lack of stock, and the order.created handler, given the replayed message,
\* has just set it to Confirmed.
C35_Witness_CancelledOrderConfirmed ==
    /\ last.op = "handle" /\ last.queue = OrderCreated /\ last.by = "replay"
    /\ ~UnmarshalOrderEvent(last.body).err
    /\ \E i \in 1..Len(orders) :
          /\ orders[i].id = UnmarshalOrderEvent(last.body).ID
          /\ orders[i].status = "Confirmed"
          /\ orders[i].notificationStatus = "sent"
          /\ orders[i].notificationMessage =
                getNotificationMessage(FALSE, orders[i].product.id)

(***************************************************************************)
(* C36: processing the same order.created message more than once (broker   *)
(* redelivery, or replay of its event-store record) reserves stock for     *)
(* that order at most once: the quantity reserved on behalf of one order   *)
(* never exceeds the quantity that order requested.  As stated, with the   *)
(* reserved field of a product standing for what its orders had reserved:  *)
(***************************************************************************)
RECURSIVE RequestedOf(_, _)
RequestedOf(docs, p) ==
    IF docs = <<>> THEN 0
    ELSE (IF docs[1].product.id = p THEN docs[1].product.quantity ELSE 0)
         + RequestedOf(Tail(docs), p)

C36_Stated_ReservedAtMostOncePerOrder ==
    \A p \in DOMAIN products : products[p].reserved <= RequestedOf(orders, p)

\* C36 witness: the order.created message of the only order was handled
\* twice, the second time from the replay of its stored record; both times
\* the handler reserved, and twice the order's quantity is reserved.
C36_Witness_ReplayReservedAgain ==
    /\ last.op = "handle" /\ last.queue = OrderCreated /\ last.by = "replay"
    /\ last.log = "Order confirmed and inventory reserved"
    /\ Len(orders) = 1
    /\ orders[1].status = "Confirmed"
    /\ products[orders[1].product.id].reserved = 2 * orders[1].product.quantity
    /\ orders[1].product.quantity > 0

(***************************************************************************)
(* C37: whenever the order.created handler ends without the order having   *)
(* been set to Confirmed (reservation error, insufficient stock, or        *)
(* failure of the order status update after a successful reservation), the *)
(* product's quantity and reserved are the same as before the handler ran. *)
(* As stated:                                                              *)
(***************************************************************************)
C37_Stated_UnconfirmedLeavesStockUntouched ==
    [][(/\ last'.op = "handle" /\ last'.queue = OrderCreated
        /\ last'.log # "Order confirmed and inventory reserved")
       => products' = products]_vars

\* C37 witness: the reservation succeeded, the order update failed: the
\* order is still Processing, its message is in order.created.dlq, and its
\* quantity is reserved.
C37_Witness_ReservedForUnconfirmedOrder ==
    /\ last.op = "handle" /\ last.queue = OrderCreated
    /\ last.log = "Failed to update order status"
    /\ ~UnmarshalOrderEvent(last.body).err
    /\ \E i \in 1..Len(orders) :
          /\ orders[i].id = UnmarshalOrderEvent(last.body).ID
          /\ orders[i].status = "Processing"
          /\ products[orders[i].product.id].reserved = orders[i].product.quantity
          /\ products[orders[i].product.id].quantity =
                SeededProducts[orders[i].product.id].quantity - orders[i].product.quantity
    /\ Len(queues[DlqName(OrderCreated)]) = 1

\* This run has sent this record to the exchange: the record is among those
\* it has been through and its publishes did not all fail.
Republished(run, id) ==
    /\ replay.runs[run].pc # "idle"
    /\ \E k \in 1..Len(replay.runs[run].done) :
          /\ replay.runs[run].done[k] = id
          /\ k \notin replay.runs[run].exhausted

\* This run has given up on this record and marked it failed again.
GaveUpOn(run, id) ==
    /\ replay.runs[run].pc # "idle"
    /\ \E k \in 1..Len(replay.runs[run].done) :
          /\ replay.runs[run].done[k] = id
          /\ k \in replay.runs[run].exhausted

(***************************************************************************)
(* C38: when two replayFailedEvents runs overlap, each eligible record is  *)
(* republished by at most one of the runs: marking a record replaying      *)
(* excludes it from the other run, so a record is never published twice    *)
(* for one stay in pending/failed.  A record that no run has given up on   *)
(* has had one such stay, the one its capture began.  As stated: no two    *)
(* runs have both republished such a record.                               *)
(***************************************************************************)
C38_Stated_RepublishedByAtMostOneRun ==
    \A r1, r2 \in Runs : \A i \in DOMAIN order_events :
        (/\ r1 # r2
         /\ \A run \in Runs : ~GaveUpOn(run, order_events[i].ID))
        => ~(/\ Republished(r1, order_events[i].ID)
             /\ Republished(r2, order_events[i].ID))

\* C38 witness: one record was captured; the second call fetched it before
\* the first had marked it replaying, every store update and publish of
\* both calls succeeded, both republished it and returned without an error:
\* order.created holds the captured message twice.
C38_Witness_SameRecordPublishedByBothRuns ==
    /\ Len(order_events) = 1 /\ replay.building = <<>>
    /\ \A run \in Runs :
          /\ replay.runs[run].pc = "returned" /\ ~replay.runs[run].err
          /\ Len(replay.runs[run].events) = 1
          /\ replay.runs[run].failureCount = 0 /\ replay.runs[run].lost = 0
          /\ replay.runs[run].successCount = 1
          /\ Republished(run, order_events[1].ID)
    /\ Len(queues[OrderCreated]) = 2
    /\ queues[OrderCreated][1].body = queues[OrderCreated][2].body
    /\ order_events[1].Status = EventStatusCompleted

\* The store holds no record in status pending or failed.
NoneAwaitingReplay ==
    \A i \in DOMAIN order_events :
        order_events[i].Status \notin {EventStatusPending, EventStatusFailed}

AllCompleted ==
    /\ order_events # <<>>
    /\ \A i \in DOMAIN order_events : order_events[i].Status = EventStatusCompleted

\* This step is the fetch of a ReplayFailedEvents call.
FetchStep ==
    /\ ~replay.running
    /\ last'.op \in {"replayFetch", "replayReturn"}
    /\ last' # last

(***************************************************************************)
(* C40: replay is idempotent on completed records: after a                 *)
(* replayFailedEvents run in which every fetched record was marked         *)
(* completed, a following run with no newly captured records fetches      *)
(* nothing, publishes nothing, changes no record and returns success; a    *)
(* completed record is never fetched or republished again.  That is: no    *)
(* fetch returns a completed record; a call made when every stored record  *)
(* is completed returns at once without an error, with "No events to       *)
(* replay", leaving the store and the queues as they are; and a record is  *)
(* not completed when a run republishes it.                                *)
(***************************************************************************)
C40_ReplayIdempotentOnCompleted ==
    /\ [](\A i \in DOMAIN order_events :
             order_events[i].Status = EventStatusCompleted
             => \A k \in 1..Len(GetUnreplayedEvents(order_events, batchSize, TRUE).events) :
                   GetUnreplayedEvents(order_events, batchSize, TRUE).events[k].ID
                       # order_events[i].ID)
    /\ [][FetchStep =>
            /\ replay'.running =>
                  \A k \in 1..Len(replay'.events) :
                      EventByID(order_events, replay'.events[k].ID).Status # EventStatusCompleted
            /\ AllCompleted =>
                  /\ ~replay'.running
                  /\ last'.op = "replayReturn" /\ last'.log = "No events to replay"
                  /\ ~last'.err /\ last'.fetched = 0 /\ last'.pubs = <<>>
                  /\ order_events' = order_events /\ queues' = queues]_vars
    /\ [][(replay.running /\ last'.op = "replayEvent")
            => EventByID(order_events, last'.event.ID).Status # EventStatusCompleted]_vars

\* C40 witness: a run fetched the one stored record, republished it and
\* marked it completed; the republished message is still waiting; the call
\* that followed found nothing to replay and returned without an error.
C40_Witness_SecondRunFoundNothing ==
    /\ used.replays = 1 /\ ~replay.running
    /\ last.op = "replayReturn" /\ last.log = "No events to replay" /\ ~last.err
    /\ last.fetched = 0
    /\ Len(order_events) = 1 /\ order_events[1].Status = EventStatusCompleted
    /\ order_events[1].Replayed
    /\ Len(queues[OrderCreated]) = 1 /\ queues[OrderCreated][1].by = "replay"

====
